---- MODULE Spec2Model ----
(***************************************************************************)
(* mdv content model: the edit buffer (crates/mdv-core/src/editor.rs), the *)
(* line diff engine (crates/mdv-core/src/conflict_diff.rs) and the         *)
(* orchestrator paths that reconcile the buffer with external text         *)
(* (crates/mdv-cli/src/app/mod.rs).                                        *)
(*                                                                         *)
(* A Rust String is modelled as the sequence of its UTF-8 bytes (integers  *)
(* 0..255); byte offsets are 0-based as in the source, so byte offset i of *)
(* the source is element i+1 of the sequence.                              *)
(***************************************************************************)
EXTENDS Integers, Sequences, FiniteSets, TLC

\* ------------------------------------------------------------------ bounds

\* Longest text (in bytes) on which an operation may still grow the text.
MaxLen == 2
\* Most snapshots on undo_stack for which an edit is still taken.
MaxEdits == 1
\* Longest text (in bytes) of a buffer in SpecSearch.
MaxSearchLen == 3
\* Longest search string (in bytes) in SpecSearch.
MaxNeedleLen == 2

\* Longest text (in bytes) a buffer starts with in SpecReplace.
MaxReplaceLen == 4
\* Number of replace_all calls on the undo stack in SpecReplace.
MaxReplaces == 1

\* Number of snapshots on the undo stack in SpecSave.
MaxSaveEdits == 2

\* Largest max_bytes given to the stream reader in SpecStream.
MaxStreamBytes == 3
\* Number of read_line calls that return a line in SpecStream.
MaxStreamReads == 3
\* Most characters of a line, its newline not counted, in SpecStream.
MaxLineChars == 2

\* Number of leaf blocks (paragraph, heading, code block, rule, table) of a
\* document in SpecRender.
MaxBlocks == 2
\* Deepest nesting of block quotes in SpecRender.
MaxQuoteDepth == 2
\* Number of Text events of a paragraph or a code block in SpecRender.
MaxTexts == 2
\* Number of items of a list in SpecRender.
MaxItems == 1
\* Number of columns of a table in SpecRender.
MaxCols == 2
\* Number of body rows of a table in SpecRender.
MaxRows == 1

\* Largest number of lines of a text in SpecPatch.
MaxPatchLines == 4

\* Longest text (in bytes) given to the diff engine in SpecDiff.
MaxDiffLen == 4
\* Edits made past the history capacity in SpecHistory.
MaxOver == 2
\* Longest run of edits that SpecUndo undoes again.
MaxRun == 2
\* Most watch messages waiting in the channel in SpecApp.
MaxQueue == 1
\* Most watch messages queued between two drains in SpecLoop.
MaxDrainQueue == 2
\* Most list items of a document in SpecBullets.
MaxBullets == 2
\* Longest text, in bytes, that SpecHunk starts from, receives or types.
MaxHunkLen == 2
\* Most edits of a run of SpecHunk.
MaxHunkEdits == 2

\* --------------------------------------------------------------- constants

\* editor.rs:7
MAX_HISTORY_ENTRIES == 128
\* '\n'
NL == 10

\* ------------------------------------------------------- byte-string helpers

Min(S) == CHOOSE x \in S : \A y \in S : x <= y
Max(S) == CHOOSE x \in S : \A y \in S : x >= y

\* s[a..b] of the source: the bytes at offsets a, ..., b-1.
Slice(s, a, b) == SubSeq(s, a + 1, b)

\* The byte offsets at which needle occurs in hay.
MatchOffsets(hay, needle) ==
    {i \in 0..(Len(hay) - Len(needle)) : Slice(hay, i, i + Len(needle)) = needle}

\* str::is_char_boundary: offset 0 and len are boundaries, otherwise the byte
\* at idx must not be a continuation byte (10xxxxxx).
is_char_boundary(s, idx) ==
    \/ idx = 0
    \/ idx = Len(s)
    \/ idx < Len(s) /\ (s[idx + 1] < 128 \/ s[idx + 1] >= 192)

\* Width in bytes of the UTF-8 character whose first byte is b.
utf8_width(b) ==
    IF b < 128 THEN 1 ELSE IF b < 224 THEN 2 ELSE IF b < 240 THEN 3 ELSE 4

\* str::replace for a non-empty needle: every non-overlapping match, left to
\* right.
RECURSIVE str_replace_from(_, _, _, _)
str_replace_from(hay, needle, repl, i) ==
    IF i + Len(needle) > Len(hay) THEN Slice(hay, i, Len(hay))
    ELSE IF Slice(hay, i, i + Len(needle)) = needle
         THEN repl \o str_replace_from(hay, needle, repl, i + Len(needle))
         ELSE <<hay[i + 1]>> \o str_replace_from(hay, needle, repl, i + 1)

\* Mutant: only the first match is replaced.
str_replace_first(hay, needle, repl) ==
    IF MatchOffsets(hay, needle) = {} THEN hay
    ELSE LET i == Min(MatchOffsets(hay, needle))
         IN  Slice(hay, 0, i) \o repl \o Slice(hay, i + Len(needle), Len(hay))

str_replace(hay, needle, repl) == str_replace_from(hay, needle, repl, 0)

\* str::matches(needle).count() for a non-empty needle: the non-overlapping
\* matches, left to right.
RECURSIVE str_matches_count_from(_, _, _)
str_matches_count_from(hay, needle, i) ==
    IF i + Len(needle) > Len(hay) THEN 0
    ELSE IF Slice(hay, i, i + Len(needle)) = needle
         THEN 1 + str_matches_count_from(hay, needle, i + Len(needle))
         ELSE str_matches_count_from(hay, needle, i + 1)

str_matches_count(hay, needle) == str_matches_count_from(hay, needle, 0)

\* str::split('\n'): always at least one line; a trailing '\n' gives a final
\* empty line.
RECURSIVE split_acc(_, _, _)
split_acc(t, i, cur) ==
    IF i > Len(t) THEN <<cur>>
    ELSE IF t[i] = NL THEN <<cur>> \o split_acc(t, i + 1, <<>>)
    ELSE split_acc(t, i + 1, Append(cur, t[i]))

split_lines(text) == split_acc(text, 1, <<>>)

\* [String]::join("\n")
RECURSIVE join_lines(_)
join_lines(lines) ==
    IF Len(lines) = 0 THEN <<>>
    ELSE IF Len(lines) = 1 THEN lines[1]
    ELSE lines[1] \o <<NL>> \o join_lines(Tail(lines))

\* str::lines().count(): as split('\n') except that a final empty piece is
\* not a line (the texts here hold no '\r').
lines_count(text) ==
    IF Len(text) = 0 THEN 0
    ELSE IF text[Len(text)] = NL THEN Len(split_lines(text)) - 1
    ELSE Len(split_lines(text))

\* -------------------------------------------------------------- diff engine

\* diff_ops, first loop nest: row i of the LCS table from row i+1 (below),
\* filled for j = m-1 down to 0; column m stays 0.
RECURSIVE lcs_row(_, _, _, _, _, _)
lcs_row(local, external, i, j, below, row) ==
    IF j < 0 THEN row
    ELSE lcs_row(local, external, i, j - 1, below,
                 [row EXCEPT ![j] =
                     IF local[i + 1] = external[j + 1]
                     THEN below[j + 1] + 1
                     ELSE Max({below[j], row[j + 1]})])

\* The rows n, n-1, ..., i of the table, as a function from row index.
RECURSIVE lcs_rows(_, _, _)
lcs_rows(local, external, i) ==
    LET n == Len(local)
        m == Len(external)
        zero == [j \in 0..m |-> 0]
    IN  IF i = n THEN [r \in {n} |-> zero]
        ELSE LET rest == lcs_rows(local, external, i + 1)
                 row == lcs_row(local, external, i, m - 1, rest[i + 1], zero)
             IN  [r \in i..n |-> IF r = i THEN row ELSE rest[r]]

\* Mutant: a table of zeros, so the walk always prefers Delete.
lcs_table_all_zero(local, external) ==
    [r \in 0..Len(local) |-> [j \in 0..Len(external) |-> 0]]

lcs_table(local, external) == lcs_rows(local, external, 0)

\* Mutant: the walk without its last loop, so the external lines left over
\* when local is used up are never inserted.
RECURSIVE diff_walk_no_tail_insert(_, _, _, _, _)
diff_walk_no_tail_insert(local, external, lcs, i, j) ==
    LET n == Len(local)
        m == Len(external)
    IN  IF i < n /\ j < m
        THEN IF local[i + 1] = external[j + 1]
             THEN <<"Equal">> \o diff_walk_no_tail_insert(local, external, lcs, i + 1, j + 1)
             ELSE IF lcs[i + 1][j] >= lcs[i][j + 1]
                  THEN <<"Delete">> \o diff_walk_no_tail_insert(local, external, lcs, i + 1, j)
                  ELSE <<"Insert">> \o diff_walk_no_tail_insert(local, external, lcs, i, j + 1)
        ELSE IF i < n
             THEN <<"Delete">> \o diff_walk_no_tail_insert(local, external, lcs, i + 1, j)
             ELSE <<>>

\* diff_ops, the walk from (0, 0): Equal on a match, else Delete when
\* lcs[i+1][j] >= lcs[i][j+1], else Insert; then the two tail loops.
RECURSIVE diff_walk(_, _, _, _, _)
diff_walk(local, external, lcs, i, j) ==
    LET n == Len(local)
        m == Len(external)
    IN  IF i < n /\ j < m
        THEN IF local[i + 1] = external[j + 1]
             THEN <<"Equal">> \o diff_walk(local, external, lcs, i + 1, j + 1)
             ELSE IF lcs[i + 1][j] >= lcs[i][j + 1]
                  THEN <<"Delete">> \o diff_walk(local, external, lcs, i + 1, j)
                  ELSE <<"Insert">> \o diff_walk(local, external, lcs, i, j + 1)
        ELSE IF i < n
             THEN <<"Delete">> \o diff_walk(local, external, lcs, i + 1, j)
             ELSE IF j < m
                  THEN <<"Insert">> \o diff_walk(local, external, lcs, i, j + 1)
                  ELSE <<>>

diff_ops(local, external) ==
    diff_walk(local, external, lcs_table(local, external), 0, 0)

\* Mutant: the inner loop stopped after one op, so that a run of changed
\* lines is cut into one hunk per op.
hunk_chunk_one_op(ops, local_lines, external_lines, st) ==
    IF st.i >= Len(ops) THEN st
    ELSE IF ops[st.i + 1] = "Delete"
         THEN [st EXCEPT !.local_chunk = Append(@, local_lines[st.local_idx + 1]),
                         !.local_idx = @ + 1,
                         !.i = @ + 1]
    ELSE IF ops[st.i + 1] = "Insert"
         THEN [st EXCEPT !.external_chunk = Append(@, external_lines[st.external_idx + 1]),
                         !.external_idx = @ + 1,
                         !.i = @ + 1]
    ELSE st

\* compute_conflict_hunks, inner loop: consume Delete/Insert ops from ops[i]
\* until an Equal or the end; st carries i, local_idx, external_idx and the
\* two chunks.
RECURSIVE hunk_chunk(_, _, _, _)
hunk_chunk(ops, local_lines, external_lines, st) ==
    IF st.i >= Len(ops) THEN st
    ELSE IF ops[st.i + 1] = "Delete"
         THEN hunk_chunk(ops, local_lines, external_lines,
                  [st EXCEPT !.local_chunk = Append(@, local_lines[st.local_idx + 1]),
                             !.local_idx = @ + 1,
                             !.i = @ + 1])
    ELSE IF ops[st.i + 1] = "Insert"
         THEN hunk_chunk(ops, local_lines, external_lines,
                  [st EXCEPT !.external_chunk = Append(@, external_lines[st.external_idx + 1]),
                             !.external_idx = @ + 1,
                             !.i = @ + 1])
    ELSE st

\* compute_conflict_hunks, outer loop.
RECURSIVE hunk_walk(_, _, _, _, _, _)
hunk_walk(ops, local_lines, external_lines, i, local_idx, external_idx) ==
    IF i >= Len(ops) THEN <<>>
    ELSE IF ops[i + 1] = "Equal"
         THEN hunk_walk(ops, local_lines, external_lines,
                        i + 1, local_idx + 1, external_idx + 1)
         ELSE LET st == hunk_chunk(ops, local_lines, external_lines,
                            [i |-> i, local_idx |-> local_idx,
                             external_idx |-> external_idx,
                             local_chunk |-> <<>>, external_chunk |-> <<>>])
              IN  <<[local_start |-> local_idx,
                     external_start |-> external_idx,
                     local_lines |-> st.local_chunk,
                     external_lines |-> st.external_chunk]>>
                  \o hunk_walk(ops, local_lines, external_lines,
                               st.i, st.local_idx, st.external_idx)

compute_conflict_hunks(local, external) ==
    LET local_lines == split_lines(local)
        external_lines == split_lines(external)
    IN  hunk_walk(diff_ops(local_lines, external_lines),
                  local_lines, external_lines, 0, 0, 0)

\* ------------------------------------------------------------------- state

VARIABLES
    text,          \* EditorBuffer.text, as UTF-8 bytes
    cursor,        \* EditorBuffer.cursor, a byte offset
    dirty,         \* EditorBuffer.dirty
    conflict,      \* EditorBuffer.conflict: <<>> is None, <<c>> is Some(c)
    undo_stack,    \* EditorBuffer.undo_stack, oldest first
    redo_stack,    \* EditorBuffer.redo_stack, oldest first
    panicked,      \* a String method's boundary assertion failed
    last,          \* the value the last EditorBuffer call returned
    phase,         \* position of the scenario specifications
    mark,          \* scenario: the buffer state the scenario measures against
    edits,         \* scenario: effective edits made since mark
    undos,         \* scenario: consecutive undo calls made
    trace,         \* scenario: the buffer state after each edit
    diff_in,       \* SpecDiff: the two texts given to the diff engine
    diff_out,      \* SpecDiff: <<>> or <<hunks>> once computed
    readonly,      \* App.readonly
    disk,          \* the contents of the file at App.path
    watch_rx,      \* App.watch_rx: the WatchMessages sent and not yet received
    selected_conflict_hunk,   \* App.selected_conflict_hunk
    status,        \* App.status
    running,       \* run_loop's local flag
    loop_result,   \* "none" while run_loop runs, then "Ok" or "Err"
    renderer,      \* markdown.rs: the Renderer of one render_preview_lines call
    render_log,    \* SpecRender: what the event stream asked to be emitted
    stream,        \* stream.rs: the reader thread, its input and its channel
    app_stream     \* App.stream_mode, stream_done, interactive_input, stream_rx

bufvars == <<text, cursor, dirty, conflict, undo_stack, redo_stack, panicked, last>>
scenvars == <<phase, mark, edits, undos, trace>>
diffvars == <<diff_in, diff_out>>
appvars == <<readonly, disk, watch_rx, selected_conflict_hunk, status, running,
             loop_result>>
libvars == <<renderer, render_log, stream, app_stream>>
vars == <<bufvars, scenvars, diffvars, appvars, libvars>>

\* What the last call returned: ret is a bool result (TRUE for a method
\* returning ()), count is replace_all's usize result (0 for the others).
Ret(ret, count) == [ret |-> ret, count |-> count]

\* ------------------------------------------------------------ buffer helpers

is_conflicted == conflict # <<>>

snapshot ==
    [text |-> text, cursor |-> cursor, dirty |-> dirty, conflict |-> conflict]

\* Mutant: the stack is never trimmed.
push_history_unbounded(stack, state) == Append(stack, state)

push_history(stack, state) ==
    LET pushed == Append(stack, state)
    IN  IF Len(pushed) > MAX_HISTORY_ENTRIES
        THEN SubSeq(pushed, Len(pushed) - MAX_HISTORY_ENTRIES + 1, Len(pushed))
        ELSE pushed

RECURSIVE prev_boundary_loop(_, _)
prev_boundary_loop(s, idx) ==
    IF idx > 0 /\ ~is_char_boundary(s, idx) THEN prev_boundary_loop(s, idx - 1)
    ELSE idx

\* Mutant: steps back one byte without looking for a boundary.
prev_char_boundary_one_byte(s, i) ==
    IF i = 0 THEN 0 ELSE i - 1

prev_char_boundary(s, i) ==
    prev_boundary_loop(s, IF i = 0 THEN 0 ELSE i - 1)

RECURSIVE next_boundary_loop(_, _)
next_boundary_loop(s, idx) ==
    IF idx < Len(s) /\ ~is_char_boundary(s, idx) THEN next_boundary_loop(s, idx + 1)
    ELSE idx

next_char_boundary(s, i) ==
    next_boundary_loop(s, Min({i + 1, Len(s)}))

\* line_col_at: the loop over char_indices, from the character at idx.
RECURSIVE line_col_scan(_, _, _, _, _)
line_col_scan(s, idx, clamped, line, col) ==
    IF idx >= Len(s) \/ idx >= clamped THEN <<line, col>>
    ELSE IF s[idx + 1] = NL
         THEN line_col_scan(s, idx + 1, clamped, line + 1, 0)
         ELSE line_col_scan(s, idx + utf8_width(s[idx + 1]), clamped, line, col + 1)

line_col_at(s, byte_index) ==
    line_col_scan(s, 0, Min({byte_index, Len(s)}), 0, 0)

\* index_at_line_col: the loop over char_indices, from the character at idx.
RECURSIVE index_scan(_, _, _, _, _, _)
index_scan(s, idx, line, col, target_line, target_col) ==
    IF idx >= Len(s) THEN Len(s)
    ELSE IF line = target_line /\ col = target_col THEN idx
    ELSE IF s[idx + 1] = NL
         THEN IF line = target_line THEN idx
              ELSE index_scan(s, idx + 1, line + 1, 0, target_line, target_col)
         ELSE index_scan(s, idx + utf8_width(s[idx + 1]), line, col + 1,
                         target_line, target_col)

index_at_line_col(s, target_line, target_col) ==
    index_scan(s, 0, 0, 0, target_line, target_col)

\* The start of the search in find_next and replace_next.
search_start_next ==
    IF cursor >= Len(text) THEN 0 ELSE next_char_boundary(text, cursor)

\* The start of the search in find_prev.
search_start_prev ==
    IF cursor = 0 THEN Len(text) ELSE prev_char_boundary(text, cursor)

\* text[start..].find(needle) or else text[..start].find(needle): the set
\* holding the match offset, empty when there is none.
find_forward(s, start, needle) ==
    LET after == MatchOffsets(Slice(s, start, Len(s)), needle)
        before == MatchOffsets(Slice(s, 0, start), needle)
    IN  IF after # {} THEN {start + Min(after)}
        ELSE IF before # {} THEN {Min(before)}
        ELSE {}

\* text[..start].rfind(needle) or else text[start..].rfind(needle).
find_backward(s, start, needle) ==
    LET before == MatchOffsets(Slice(s, 0, start), needle)
        after == MatchOffsets(Slice(s, start, Len(s)), needle)
    IN  IF before # {} THEN {Max(before)}
        ELSE IF after # {} THEN {start + Max(after)}
        ELSE {}

\* A call that fails a String boundary assertion aborts the program.
Panic ==
    /\ panicked' = TRUE
    /\ last' = Ret(FALSE, 0)
    /\ UNCHANGED <<text, cursor, dirty, conflict, undo_stack, redo_stack>>

\* --------------------------------------------------------- buffer operations

push_undo_snapshot == push_history(undo_stack, snapshot)

\* EditorBuffer::new
new(t) ==
    /\ text = t
    /\ cursor = Len(t)
    /\ dirty = FALSE
    /\ conflict = <<>>
    /\ undo_stack = <<>>
    /\ redo_stack = <<>>
    /\ panicked = FALSE
    /\ last = Ret(TRUE, 0)

\* Mutant: the redo stack is left as it is.
insert_char_keeps_redo(c) ==
    /\ undo_stack' = push_history(undo_stack, snapshot)
    /\ text' = Slice(text, 0, cursor) \o c \o Slice(text, cursor, Len(text))
    /\ cursor' = cursor + Len(c)
    /\ dirty' = TRUE
    /\ last' = Ret(TRUE, 0)
    /\ UNCHANGED <<redo_stack, conflict, panicked>>

\* String::insert asserts that cursor is a char boundary of text.
insert_char(c) ==
    IF ~is_char_boundary(text, cursor) THEN Panic
    ELSE /\ undo_stack' = push_undo_snapshot
         /\ redo_stack' = <<>>
         /\ text' = Slice(text, 0, cursor) \o c \o Slice(text, cursor, Len(text))
         /\ cursor' = cursor + Len(c)
         /\ dirty' = TRUE
         /\ last' = Ret(TRUE, 0)
         /\ UNCHANGED <<conflict, panicked>>

insert_newline == insert_char(<<NL>>)

\* String::replace_range asserts that both ends are char boundaries.
backspace ==
    IF cursor = 0
    THEN /\ last' = Ret(TRUE, 0)
         /\ UNCHANGED <<text, cursor, dirty, conflict, undo_stack, redo_stack, panicked>>
    ELSE LET prev == prev_char_boundary(text, cursor)
         IN  IF ~is_char_boundary(text, prev) \/ ~is_char_boundary(text, cursor)
             THEN Panic
             ELSE /\ undo_stack' = push_undo_snapshot
                  /\ redo_stack' = <<>>
                  /\ text' = Slice(text, 0, prev) \o Slice(text, cursor, Len(text))
                  /\ cursor' = prev
                  /\ dirty' = TRUE
                  /\ last' = Ret(TRUE, 0)
                  /\ UNCHANGED <<conflict, panicked>>

\* Mutant: the conflict is not restored.
restore_keeps_conflict(state) ==
    /\ text' = state.text
    /\ cursor' = state.cursor
    /\ dirty' = state.dirty
    /\ conflict' = conflict

\* Mutant: the cursor is not restored.
restore_keeps_cursor(state) ==
    /\ text' = state.text
    /\ cursor' = Min({cursor, Len(state.text)})
    /\ dirty' = state.dirty
    /\ conflict' = state.conflict

restore(state) ==
    /\ text' = state.text
    /\ cursor' = state.cursor
    /\ dirty' = state.dirty
    /\ conflict' = state.conflict

undo ==
    IF undo_stack = <<>>
    THEN /\ last' = Ret(FALSE, 0)
         /\ UNCHANGED <<text, cursor, dirty, conflict, undo_stack, redo_stack, panicked>>
    ELSE /\ undo_stack' = SubSeq(undo_stack, 1, Len(undo_stack) - 1)
         /\ redo_stack' = push_history(redo_stack, snapshot)
         /\ restore(undo_stack[Len(undo_stack)])
         /\ last' = Ret(TRUE, 0)
         /\ UNCHANGED panicked

redo ==
    IF redo_stack = <<>>
    THEN /\ last' = Ret(FALSE, 0)
         /\ UNCHANGED <<text, cursor, dirty, conflict, undo_stack, redo_stack, panicked>>
    ELSE /\ redo_stack' = SubSeq(redo_stack, 1, Len(redo_stack) - 1)
         /\ undo_stack' = push_history(undo_stack, snapshot)
         /\ restore(redo_stack[Len(redo_stack)])
         /\ last' = Ret(TRUE, 0)
         /\ UNCHANGED panicked

find_next(needle) ==
    LET found == IF needle = <<>> THEN {}
                 ELSE find_forward(text, search_start_next, needle)
    IN  /\ cursor' = IF found = {} THEN cursor ELSE Min(found)
        /\ last' = Ret(found # {}, 0)
        /\ UNCHANGED <<text, dirty, conflict, undo_stack, redo_stack, panicked>>

find_prev(needle) ==
    LET found == IF needle = <<>> THEN {}
                 ELSE find_backward(text, search_start_prev, needle)
    IN  /\ cursor' = IF found = {} THEN cursor ELSE Min(found)
        /\ last' = Ret(found # {}, 0)
        /\ UNCHANGED <<text, dirty, conflict, undo_stack, redo_stack, panicked>>

replace_next(needle, replacement) ==
    LET found == IF needle = <<>> THEN {}
                 ELSE find_forward(text, search_start_next, needle)
    IN  IF found = {}
        THEN /\ last' = Ret(FALSE, 0)
             /\ UNCHANGED <<text, cursor, dirty, conflict, undo_stack, redo_stack, panicked>>
        ELSE LET match_start == Min(found)
                 match_end == match_start + Len(needle)
             IN  IF ~is_char_boundary(text, match_start) \/ ~is_char_boundary(text, match_end)
                 THEN Panic
                 ELSE /\ undo_stack' = push_undo_snapshot
                      /\ redo_stack' = <<>>
                      /\ text' = Slice(text, 0, match_start) \o replacement
                                     \o Slice(text, match_end, Len(text))
                      /\ cursor' = match_start + Len(replacement)
                      /\ dirty' = TRUE
                      /\ last' = Ret(TRUE, 0)
                      /\ UNCHANGED <<conflict, panicked>>

replace_all(needle, replacement) ==
    IF needle = <<>> \/ MatchOffsets(text, needle) = {}
    THEN /\ last' = Ret(TRUE, 0)
         /\ UNCHANGED <<text, cursor, dirty, conflict, undo_stack, redo_stack, panicked>>
    ELSE /\ undo_stack' = push_undo_snapshot
         /\ redo_stack' = <<>>
         /\ text' = str_replace(text, needle, replacement)
         /\ cursor' = Len(text')
         /\ dirty' = TRUE
         /\ last' = Ret(TRUE, str_matches_count(text, needle))
         /\ UNCHANGED <<conflict, panicked>>

move_left ==
    /\ cursor' = IF cursor = 0 THEN cursor ELSE prev_char_boundary(text, cursor)
    /\ last' = Ret(TRUE, 0)
    /\ UNCHANGED <<text, dirty, conflict, undo_stack, redo_stack, panicked>>

move_right ==
    /\ cursor' = IF cursor >= Len(text) THEN cursor ELSE next_char_boundary(text, cursor)
    /\ last' = Ret(TRUE, 0)
    /\ UNCHANGED <<text, dirty, conflict, undo_stack, redo_stack, panicked>>

move_up ==
    LET lc == line_col_at(text, cursor)
    IN  /\ cursor' = IF lc[1] = 0 THEN cursor
                     ELSE index_at_line_col(text, lc[1] - 1, lc[2])
        /\ last' = Ret(TRUE, 0)
        /\ UNCHANGED <<text, dirty, conflict, undo_stack, redo_stack, panicked>>

move_down ==
    LET lc == line_col_at(text, cursor)
        total_lines == Max({lines_count(text), 1})
    IN  /\ cursor' = IF lc[1] + 1 >= total_lines THEN cursor
                     ELSE index_at_line_col(text, lc[1] + 1, lc[2])
        /\ last' = Ret(TRUE, 0)
        /\ UNCHANGED <<text, dirty, conflict, undo_stack, redo_stack, panicked>>

goto_line(line_number) ==
    LET total_lines == Max({Len(split_lines(text)), 1})
        ok == line_number # 0 /\ line_number <= total_lines
    IN  /\ cursor' = IF ok THEN index_at_line_col(text, line_number - 1, 0) ELSE cursor
        /\ last' = Ret(ok, 0)
        /\ UNCHANGED <<text, dirty, conflict, undo_stack, redo_stack, panicked>>

\* Mutant: takes the text over but puts the cursor at the start.
set_from_disk_cursor_home(t) ==
    /\ text' = t
    /\ cursor' = 0
    /\ dirty' = FALSE
    /\ conflict' = <<>>

set_from_disk(t) ==
    /\ text' = t
    /\ cursor' = Len(t)
    /\ dirty' = FALSE
    /\ conflict' = <<>>

\* Mutant: a conflict record that is already present is kept.
on_external_change_keeps_record(external) ==
    /\ IF dirty
       THEN /\ conflict' = IF is_conflicted THEN conflict
                           ELSE <<[external |-> external,
                                   hunks |-> compute_conflict_hunks(text, external)]>>
            /\ UNCHANGED <<text, cursor, dirty>>
       ELSE set_from_disk(external)
    /\ last' = Ret(TRUE, 0)
    /\ UNCHANGED <<undo_stack, redo_stack, panicked>>

on_external_change(external) ==
    /\ IF dirty
       THEN /\ conflict' = <<[external |-> external,
                              hunks |-> compute_conflict_hunks(text, external)]>>
            /\ UNCHANGED <<text, cursor, dirty>>
       ELSE set_from_disk(external)
    /\ last' = Ret(TRUE, 0)
    /\ UNCHANGED <<undo_stack, redo_stack, panicked>>

keep_local ==
    /\ conflict' = <<>>
    /\ last' = Ret(TRUE, 0)
    /\ UNCHANGED <<text, cursor, dirty, undo_stack, redo_stack, panicked>>

reload_external ==
    /\ IF is_conflicted
       THEN set_from_disk(conflict[1].external)
       ELSE UNCHANGED <<text, cursor, dirty, conflict>>
    /\ last' = Ret(TRUE, 0)
    /\ UNCHANGED <<undo_stack, redo_stack, panicked>>

\* "<<<<<<< local\n"
MarkerLocal == <<60, 60, 60, 60, 60, 60, 60, 32, 108, 111, 99, 97, 108, NL>>
\* "\n=======\n"
MarkerSep == <<NL, 61, 61, 61, 61, 61, 61, 61, NL>>
\* "\n>>>>>>> external\n"
MarkerExternal ==
    <<NL, 62, 62, 62, 62, 62, 62, 62, 32, 101, 120, 116, 101, 114, 110, 97, 108, NL>>

\* Mutant: the two texts are written in the other order.
merge_external_external_first ==
    /\ IF is_conflicted
       THEN /\ text' = MarkerLocal \o conflict[1].external \o MarkerSep \o text
                           \o MarkerExternal
            /\ cursor' = Len(text')
            /\ dirty' = TRUE
            /\ conflict' = <<>>
       ELSE UNCHANGED <<text, cursor, dirty, conflict>>
    /\ last' = Ret(TRUE, 0)
    /\ UNCHANGED <<undo_stack, redo_stack, panicked>>

merge_external ==
    /\ IF is_conflicted
       THEN /\ text' = MarkerLocal \o text \o MarkerSep \o conflict[1].external
                           \o MarkerExternal
            /\ cursor' = Len(text')
            /\ dirty' = TRUE
            /\ conflict' = <<>>
       ELSE UNCHANGED <<text, cursor, dirty, conflict>>
    /\ last' = Ret(TRUE, 0)
    /\ UNCHANGED <<undo_stack, redo_stack, panicked>>

\* Mutant: the conflict is dropped after any applied hunk.
apply_external_hunk_resolves_early(hunk_index) ==
    IF ~is_conflicted \/ hunk_index >= Len(conflict[1].hunks)
    THEN /\ last' = Ret(FALSE, 0)
         /\ UNCHANGED <<text, cursor, dirty, conflict, undo_stack, redo_stack, panicked>>
    ELSE LET hunk == conflict[1].hunks[hunk_index + 1]
             lines == split_lines(text)
             start == Min({hunk.local_start, Len(lines)})
             end == Min({start + Len(hunk.local_lines), Len(lines)})
             spliced == SubSeq(lines, 1, start) \o hunk.external_lines
                            \o SubSeq(lines, end + 1, Len(lines))
         IN  /\ text' = join_lines(spliced)
             /\ cursor' = index_at_line_col(text', start, 0)
             /\ dirty' = TRUE
             /\ conflict' = <<>>
             /\ last' = Ret(TRUE, 0)
             /\ UNCHANGED <<undo_stack, redo_stack, panicked>>

\* Mutant: an index past the last hunk applies the last hunk.
apply_external_hunk_clamps_index(hunk_index) ==
    IF ~is_conflicted
    THEN /\ last' = Ret(FALSE, 0)
         /\ UNCHANGED <<text, cursor, dirty, conflict, undo_stack, redo_stack, panicked>>
    ELSE IF conflict[1].hunks = <<>>
    THEN /\ last' = Ret(FALSE, 0)
         /\ UNCHANGED <<text, cursor, dirty, conflict, undo_stack, redo_stack, panicked>>
    ELSE LET hunk == conflict[1].hunks[Min({hunk_index + 1, Len(conflict[1].hunks)})]
             lines == split_lines(text)
             start == Min({hunk.local_start, Len(lines)})
             end == Min({start + Len(hunk.local_lines), Len(lines)})
             spliced == SubSeq(lines, 1, start) \o hunk.external_lines
                            \o SubSeq(lines, end + 1, Len(lines))
             external == conflict[1].external
             hunks == compute_conflict_hunks(join_lines(spliced), external)
         IN  /\ text' = join_lines(spliced)
             /\ cursor' = index_at_line_col(text', start, 0)
             /\ dirty' = TRUE
             /\ conflict' = IF hunks = <<>> THEN <<>>
                            ELSE <<[external |-> external, hunks |-> hunks]>>
             /\ last' = Ret(TRUE, 0)
             /\ UNCHANGED <<undo_stack, redo_stack, panicked>>

apply_external_hunk(hunk_index) ==
    IF ~is_conflicted \/ hunk_index >= Len(conflict[1].hunks)
    THEN /\ last' = Ret(FALSE, 0)
         /\ UNCHANGED <<text, cursor, dirty, conflict, undo_stack, redo_stack, panicked>>
    ELSE LET hunk == conflict[1].hunks[hunk_index + 1]
             lines == split_lines(text)
             start == Min({hunk.local_start, Len(lines)})
             end == Min({start + Len(hunk.local_lines), Len(lines)})
             spliced == SubSeq(lines, 1, start) \o hunk.external_lines
                            \o SubSeq(lines, end + 1, Len(lines))
             external == conflict[1].external
             hunks == compute_conflict_hunks(join_lines(spliced), external)
         IN  /\ text' = join_lines(spliced)
             /\ cursor' = index_at_line_col(text', start, 0)
             /\ dirty' = TRUE
             /\ conflict' = IF hunks = <<>> THEN <<>>
                            ELSE <<[external |-> external, hunks |-> hunks]>>
             /\ last' = Ret(TRUE, 0)
             /\ UNCHANGED <<undo_stack, redo_stack, panicked>>

\* Mutant: the flags are cleared before the write is known to have succeeded.
save_to_path_clears_first(written) ==
    /\ dirty' = FALSE
    /\ conflict' = <<>>
    /\ last' = Ret(written, 0)
    /\ UNCHANGED <<text, cursor, undo_stack, redo_stack, panicked>>

\* fs::write either succeeds or fails with an I/O error (written = FALSE).
save_to_path(written) ==
    /\ IF written
       THEN /\ dirty' = FALSE
            /\ conflict' = <<>>
       ELSE UNCHANGED <<dirty, conflict>>
    /\ last' = Ret(written, 0)
    /\ UNCHANGED <<text, cursor, undo_stack, redo_stack, panicked>>

\* ------------------------------------------------------------------ inputs

\* Texts a buffer is constructed with: "", "é\n".
InitTexts == {<<>>, <<195, 169, NL>>}
\* Texts the file system or the stream hands over: "é", "\né".
Externals == {<<195, 169>>, <<NL, 195, 169>>}
\* Characters of a character key: 'é'.
KeyChars == {<<195, 169>>}
\* Search strings: "", "é".
Needles == {<<>>, <<195, 169>>}
\* Replacement strings: "\n".
Replacements == {<<NL>>}

\* ----------------------------------------------------- Spec: the buffer API

ScenIdle ==
    /\ phase = "api"
    /\ mark = <<>>
    /\ edits = 0
    /\ undos = 0
    /\ trace = <<>>

\* The app variables of a specification that runs no App.
AppIdle ==
    /\ readonly = FALSE
    /\ disk = <<>>
    /\ watch_rx = <<>>
    /\ selected_conflict_hunk = 0
    /\ status = "Ready"
    /\ running = TRUE
    /\ loop_result = "none"

DiffIdle ==
    /\ diff_in = <<>>
    /\ diff_out = <<>>

\* The renderer and the stream reader of a specification that runs neither.
LibIdle ==
    /\ renderer = <<>>
    /\ render_log = <<>>
    /\ stream = <<>>
    /\ app_stream = <<>>

Init ==
    /\ \E t \in InitTexts : new(t)
    /\ ScenIdle
    /\ DiffIdle
    /\ LibIdle
    /\ AppIdle

\* A call of the API by the buffer's owner leaves the scenario and diff
\* variables alone; nothing runs after a panic.
Api ==
    /\ ~panicked
    /\ UNCHANGED <<scenvars, diffvars, libvars, appvars>>

\* Only undo, redo, save and the whole-conflict resolutions are taken on a
\* text that holds conflict markers (the text merge_external leaves).
Short == Len(text) < Len(MarkerLocal)

\* An edit is taken while the history and the text are within the bounds.
EditRoom == Len(undo_stack) < MaxEdits

DoInsertChar ==
    \E c \in KeyChars :
        EditRoom /\ Len(text) + Len(c) <= MaxLen /\ Api /\ insert_char(c)

DoInsertNewline ==
    EditRoom /\ Len(text) + 1 <= MaxLen /\ Api /\ insert_newline

DoBackspace == Short /\ EditRoom /\ Api /\ backspace

DoUndo == Api /\ undo

DoRedo == Api /\ redo

DoFindNext == Short /\ \E n \in Needles : Api /\ find_next(n)

DoFindPrev == Short /\ \E n \in Needles : Api /\ find_prev(n)

DoReplaceNext ==
    \E n \in Needles, r \in Replacements :
        /\ Short /\ EditRoom
        /\ Len(text) - Len(n) + Len(r) <= MaxLen
        /\ Api /\ replace_next(n, r)

DoReplaceAll ==
    \E n \in Needles, r \in Replacements :
        /\ Short /\ EditRoom
        /\ (IF n = <<>> THEN TRUE ELSE Len(str_replace(text, n, r)) <= MaxLen)
        /\ Api /\ replace_all(n, r)

DoMoveLeft == Short /\ Api /\ move_left

DoMoveRight == Short /\ Api /\ move_right

DoMoveUp == Short /\ Api /\ move_up

DoMoveDown == Short /\ Api /\ move_down

DoGotoLine == Short /\ \E k \in 0..3 : Api /\ goto_line(k)

DoExternalChange == Short /\ \E e \in Externals : Api /\ on_external_change(e)

DoKeepLocal == Api /\ keep_local

DoReloadExternal == Api /\ reload_external

DoMergeExternal == Short /\ Api /\ merge_external

DoApplyHunk == Short /\ \E i \in 0..1 : Api /\ apply_external_hunk(i)

DoSave == \E written \in BOOLEAN : Api /\ save_to_path(written)

Next ==
    \/ DoInsertChar
    \/ DoInsertNewline
    \/ DoBackspace
    \/ DoUndo
    \/ DoRedo
    \/ DoFindNext
    \/ DoFindPrev
    \/ DoReplaceNext
    \/ DoReplaceAll
    \/ DoMoveLeft
    \/ DoMoveRight
    \/ DoMoveUp
    \/ DoMoveDown
    \/ DoGotoLine
    \/ DoExternalChange
    \/ DoKeepLocal
    \/ DoReloadExternal
    \/ DoMergeExternal
    \/ DoApplyHunk
    \/ DoSave

Spec == Init /\ [][Next]_vars

\* ------------------------------------------------ SpecDiff: the diff engine

\* The bytes of the texts given to the diff engine: 'a', 'b', '\n'.
DiffBytes == {97, 98, NL}

\* Every byte string over DiffBytes of at most n bytes.
RECURSIVE DiffTexts(_)
DiffTexts(n) ==
    IF n = 0 THEN {<<>>}
    ELSE LET shorter == DiffTexts(n - 1)
         IN  shorter \cup {Append(t, b) : t \in shorter, b \in DiffBytes}

BufferIdle == new(<<>>)

InitDiff ==
    /\ \E a \in DiffTexts(MaxDiffLen), b \in DiffTexts(MaxDiffLen) : diff_in = <<a, b>>
    /\ diff_out = <<>>
    /\ BufferIdle
    /\ ScenIdle
    /\ AppIdle
    /\ LibIdle

\* One call compute_conflict_hunks(a, b).
DiffCompute ==
    /\ diff_out = <<>>
    /\ diff_out' = <<compute_conflict_hunks(diff_in[1], diff_in[2])>>
    /\ UNCHANGED <<diff_in, bufvars, scenvars, appvars, libvars>>

NextDiff == DiffCompute

SpecDiff == InitDiff /\ [][NextDiff]_vars

\* --------------------------------------- SpecUndo: edits, undos, edit, redo

\* The scenario: a run of effective edits with cursor moves and searches in
\* between (phase "edit"), then consecutive undo calls ("undo", or "failed"
\* once one has returned false), then one more effective edit ("reedit") and
\* a redo ("redone"). mark is the text and cursor before the first edit.
\* Before the run ("pre") the buffer is edited and undone freely, so that a
\* run starts with history on either stack.
InitUndo ==
    /\ \E t \in InitTexts : new(t)
    /\ phase = "pre"
    /\ mark = <<>>
    /\ edits = 0
    /\ undos = 0
    /\ trace = <<>>
    /\ DiffIdle
    /\ LibIdle
    /\ AppIdle

\* insert_char, insert_newline, backspace with cursor > 0, a replace_next or
\* replace_all that has a match: the calls that edit the text.
EffectiveEdit ==
    \/ \E c \in KeyChars : Len(text) + Len(c) <= MaxLen /\ insert_char(c)
    \/ Len(text) + 1 <= MaxLen /\ insert_newline
    \/ cursor > 0 /\ backspace
    \/ \E n \in Needles \ {<<>>}, r \in Replacements :
           MatchOffsets(text, n) # {} /\ replace_next(n, r)
    \/ \E n \in Needles \ {<<>>}, r \in Replacements :
           MatchOffsets(text, n) # {} /\ replace_all(n, r)

CursorMoveOrSearch ==
    \/ move_left
    \/ move_right
    \/ move_up
    \/ move_down
    \/ \E n \in Needles : find_next(n)
    \/ \E n \in Needles : find_prev(n)
    \/ \E k \in 0..3 : goto_line(k)

UndoPre ==
    /\ phase = "pre"
    /\ ~panicked
    /\ Len(undo_stack) + Len(redo_stack) < MaxEdits
    /\ EffectiveEdit \/ undo
    /\ UNCHANGED <<scenvars, diffvars, libvars, appvars>>

UndoBegin ==
    /\ phase = "pre"
    /\ phase' = "edit"
    /\ UNCHANGED <<bufvars, mark, edits, undos, trace, diffvars, libvars, appvars>>

UndoEdit ==
    /\ phase = "edit"
    /\ ~panicked
    /\ edits < MaxRun
    /\ EffectiveEdit
    /\ edits' = edits + 1
    /\ mark' = IF edits = 0 THEN <<[text |-> text, cursor |-> cursor]>> ELSE mark
    /\ UNCHANGED <<phase, undos, trace, diffvars, libvars, appvars>>

UndoMove ==
    /\ phase \in {"edit", "reedit"}
    /\ ~panicked
    /\ CursorMoveOrSearch
    /\ UNCHANGED <<scenvars, diffvars, libvars, appvars>>

UndoUndo ==
    /\ phase \in {"edit", "undo"}
    /\ ~panicked
    /\ edits >= 1
    /\ undos < edits
    /\ undo
    /\ undos' = undos + 1
    /\ phase' = IF last'.ret THEN "undo" ELSE "failed"
    /\ UNCHANGED <<mark, edits, trace, diffvars, libvars, appvars>>

UndoReedit ==
    /\ phase = "undo"
    /\ ~panicked
    /\ EffectiveEdit
    /\ phase' = "reedit"
    /\ UNCHANGED <<mark, edits, undos, trace, diffvars, libvars, appvars>>

UndoRedo ==
    /\ phase = "reedit"
    /\ ~panicked
    /\ redo
    /\ phase' = "redone"
    /\ UNCHANGED <<mark, edits, undos, trace, diffvars, libvars, appvars>>

NextUndo ==
    \/ UndoPre
    \/ UndoBegin
    \/ UndoEdit
    \/ UndoMove
    \/ UndoUndo
    \/ UndoReedit
    \/ UndoRedo

SpecUndo == InitUndo /\ [][NextUndo]_vars

\* ------------------------------- SpecHistory: more edits than history holds

\* The scenario of the test undo_history_is_bounded: a fresh buffer, more
\* than MAX_HISTORY_ENTRIES edits ("fill"), then undo until it returns false
\* ("drain", then "drained"). trace records the buffer after each edit.
InitHistory ==
    /\ new(<<>>)
    /\ phase = "fill"
    /\ mark = <<>>
    /\ edits = 0
    /\ undos = 0
    /\ trace = <<>>
    /\ DiffIdle
    /\ LibIdle
    /\ AppIdle

HistoryEdit ==
    /\ phase = "fill"
    /\ edits < MAX_HISTORY_ENTRIES + MaxOver
    /\ \E c \in KeyChars : insert_char(c)
    /\ edits' = edits + 1
    /\ trace' = Append(trace, [text |-> text', cursor |-> cursor',
                               dirty |-> dirty', conflict |-> conflict'])
    /\ UNCHANGED <<phase, mark, undos, diffvars, libvars, appvars>>

HistoryUndo ==
    /\ phase \in {"fill", "drain"}
    /\ edits > MAX_HISTORY_ENTRIES
    /\ undo
    /\ undos' = IF last'.ret THEN undos + 1 ELSE undos
    /\ phase' = IF last'.ret THEN "drain" ELSE "drained"
    /\ UNCHANGED <<mark, edits, trace, diffvars, libvars, appvars>>

NextHistory ==
    \/ HistoryEdit
    \/ HistoryUndo

SpecHistory == InitHistory /\ [][NextHistory]_vars

\* ------------------------------------- SpecApp: the control loop on a file

\* An App made by new_file with interactive input and the watcher enabled.
\* The keys modelled are those handle_key dispatches in its final match
\* while no search, goto, replace, help or home prompt is open; scroll
\* offsets and the preview cache are not part of the state.
InitApp ==
    /\ \E t \in InitTexts : new(t) /\ disk = t
    /\ readonly \in BOOLEAN
    /\ watch_rx = <<>>
    /\ selected_conflict_hunk = 0
    /\ status = "Ready"
    /\ running = TRUE
    /\ loop_result = "none"
    /\ ScenIdle
    /\ DiffIdle
    /\ LibIdle

\* Mutant: the selection is reset only when the conflict is gone.
sync_conflict_hunk_selection_keeps(conf, sel) ==
    IF conf = <<>> THEN 0 ELSE sel

\* The selection sync_conflict_hunk_selection leaves, given the conflict
\* record and the selection before it.
sync_conflict_hunk_selection(conf, sel) ==
    IF conf = <<>>
    THEN 0
    ELSE IF conf[1].hunks = <<>>
         THEN 0
         ELSE Min({sel, Len(conf[1].hunks) - 1})

\* Mutant: the first ExternalUpdate of the queue is kept.
latest_external_first(queue) ==
    LET updates == {i \in 1..Len(queue) : queue[i].kind = "ExternalUpdate"}
    IN  IF updates = {} THEN <<>> ELSE <<queue[Min(updates)].text>>

\* The text of the last ExternalUpdate in the queue: <<>> or <<text>>.
latest_external(queue) ==
    LET updates == {i \in 1..Len(queue) : queue[i].kind = "ExternalUpdate"}
    IN  IF updates = {} THEN <<>> ELSE <<queue[Max(updates)].text>>

has_watch_error(queue) == \E i \in 1..Len(queue) : queue[i].kind = "Error"

StatusConflict ==
    "External update conflict: Ctrl+J/Ctrl+U hunk | Ctrl+E apply | Ctrl+K keep | Ctrl+R reload | Ctrl+M merge"

\* What another program writes to the file.
AppExternals == {<<195, 169>>}

LoopRunning == running /\ loop_result = "none" /\ ~panicked

\* Another program writes the watched file; the watcher's handler reads the
\* file and sends what it read.
ExternalWrite ==
    /\ LoopRunning
    /\ Len(watch_rx) < MaxQueue
    /\ \E e \in AppExternals :
           /\ disk' = e
           /\ watch_rx' = Append(watch_rx, [kind |-> "ExternalUpdate", text |-> e])
    /\ UNCHANGED <<bufvars, scenvars, diffvars, libvars, readonly, selected_conflict_hunk,
                   status, running, loop_result>>

\* The watcher's handler gets an event it cannot turn into a text.
WatchFailure ==
    /\ LoopRunning
    /\ Len(watch_rx) < MaxQueue
    /\ watch_rx' = Append(watch_rx, [kind |-> "Error", text |-> <<>>])
    /\ UNCHANGED <<bufvars, scenvars, diffvars, libvars, readonly, disk,
                   selected_conflict_hunk, status, running, loop_result>>

handle_watch_updates ==
    LET latest == latest_external(watch_rx)
        drained == IF has_watch_error(watch_rx) THEN "watch error" ELSE status
    IN  /\ watch_rx' = <<>>
        /\ IF latest = <<>>
           THEN /\ status' = drained
                /\ UNCHANGED <<bufvars, selected_conflict_hunk>>
           ELSE IF latest[1] = text
           THEN /\ status' = drained
                /\ UNCHANGED <<bufvars, selected_conflict_hunk>>
           ELSE /\ on_external_change(latest[1])
                /\ selected_conflict_hunk' =
                       sync_conflict_hunk_selection(conflict', selected_conflict_hunk)
                /\ status' = IF conflict' # <<>>
                             THEN StatusConflict
                             ELSE "File refreshed from disk"
        /\ UNCHANGED <<readonly, disk, running, loop_result>>

\* After an editor call of handle_key: sync_conflict_hunk_selection.
SyncSelection ==
    selected_conflict_hunk' =
        sync_conflict_hunk_selection(conflict', selected_conflict_hunk)

KeyFrame == UNCHANGED <<readonly, disk, watch_rx, running, loop_result>>

KeyChar(c) ==
    /\ IF readonly
       THEN UNCHANGED <<bufvars, selected_conflict_hunk>>
       ELSE insert_char(c) /\ SyncSelection
    /\ UNCHANGED status
    /\ KeyFrame

KeyEnter ==
    /\ IF readonly
       THEN UNCHANGED <<bufvars, selected_conflict_hunk>>
       ELSE insert_newline /\ SyncSelection
    /\ UNCHANGED status
    /\ KeyFrame

KeyBackspace ==
    /\ IF readonly
       THEN UNCHANGED <<bufvars, selected_conflict_hunk>>
       ELSE backspace /\ SyncSelection
    /\ UNCHANGED status
    /\ KeyFrame

KeyArrow ==
    /\ move_left \/ move_right \/ move_up \/ move_down
    /\ UNCHANGED <<selected_conflict_hunk, status>>
    /\ KeyFrame

KeyCtrlZ ==
    /\ undo
    /\ IF last'.ret
       THEN SyncSelection /\ status' = "Undo"
       ELSE UNCHANGED selected_conflict_hunk /\ status' = "Nothing to undo"
    /\ KeyFrame

KeyCtrlY ==
    /\ redo
    /\ IF last'.ret
       THEN SyncSelection /\ status' = "Redo"
       ELSE UNCHANGED selected_conflict_hunk /\ status' = "Nothing to redo"
    /\ KeyFrame

\* fs::read_to_string(path).unwrap_or_default(): the file's text, or the
\* empty text when the read fails.
KeyCtrlR ==
    /\ IF is_conflicted
       THEN /\ reload_external
            /\ SyncSelection
            /\ status' = "Reloaded external"
       ELSE /\ \E readable \in BOOLEAN :
                   on_external_change(IF readable THEN disk ELSE <<>>)
            /\ SyncSelection
            /\ status' = "Reloaded from disk"
    /\ KeyFrame

KeyCtrlK ==
    /\ IF is_conflicted
       THEN /\ keep_local
            /\ SyncSelection
            /\ status' = "Kept local"
       ELSE /\ status' = "No conflict to keep"
            /\ UNCHANGED <<bufvars, selected_conflict_hunk>>
    /\ KeyFrame

KeyCtrlM ==
    /\ IF is_conflicted
       THEN /\ merge_external
            /\ SyncSelection
            /\ status' = "Merged with conflict markers"
       ELSE /\ status' = "No conflict to merge"
            /\ UNCHANGED <<bufvars, selected_conflict_hunk>>
    /\ KeyFrame

\* A write that succeeds changes the file, and the watcher reports the new
\* contents; one that fails ends run_loop with the error.
\* Mutant: a failed save is put in the status line and the loop goes on.
KeyCtrlS_reports_failure ==
    /\ IF readonly
       THEN /\ status' = "Readonly: save disabled"
            /\ UNCHANGED <<bufvars, disk, watch_rx, loop_result>>
       ELSE \E written \in BOOLEAN :
                /\ save_to_path(written)
                /\ IF written
                   THEN /\ Len(watch_rx) < MaxQueue
                        /\ disk' = text
                        /\ watch_rx' = Append(watch_rx,
                               [kind |-> "ExternalUpdate", text |-> text])
                        /\ status' = "Saved"
                        /\ UNCHANGED loop_result
                   ELSE /\ status' = "save failed"
                        /\ UNCHANGED <<disk, watch_rx, loop_result>>
    /\ UNCHANGED <<readonly, selected_conflict_hunk, running>>

KeyCtrlS ==
    /\ IF readonly
       THEN /\ status' = "Readonly: save disabled"
            /\ UNCHANGED <<bufvars, disk, watch_rx, loop_result>>
       ELSE \E written \in BOOLEAN :
                /\ save_to_path(written)
                /\ IF written
                   THEN /\ Len(watch_rx) < MaxQueue
                        /\ disk' = text
                        /\ watch_rx' = Append(watch_rx,
                               [kind |-> "ExternalUpdate", text |-> text])
                        /\ status' = "Saved"
                        /\ UNCHANGED loop_result
                   ELSE /\ loop_result' = "Err"
                        /\ UNCHANGED <<disk, watch_rx, status>>
    /\ UNCHANGED <<readonly, selected_conflict_hunk, running>>

move_conflict_hunk(direction) ==
    /\ IF conflict = <<>>
       THEN /\ status' = "No conflict hunks"
            /\ UNCHANGED selected_conflict_hunk
       ELSE IF conflict[1].hunks = <<>>
       THEN /\ status' = "No conflict hunks"
            /\ UNCHANGED selected_conflict_hunk
       ELSE LET len == Len(conflict[1].hunks)
            IN  /\ selected_conflict_hunk' =
                       IF direction < 0
                       THEN IF selected_conflict_hunk = 0
                            THEN len - 1
                            ELSE selected_conflict_hunk - 1
                       ELSE (selected_conflict_hunk + 1) % len
                /\ status' = "Conflict hunk"
    /\ UNCHANGED bufvars
    /\ KeyFrame

apply_selected_conflict_hunk ==
    /\ IF ~is_conflicted
       THEN /\ status' = "No conflict hunks"
            /\ UNCHANGED <<bufvars, selected_conflict_hunk>>
       ELSE /\ apply_external_hunk(selected_conflict_hunk)
            /\ IF last'.ret
               THEN /\ SyncSelection
                    /\ status' = IF conflict' # <<>>
                                 THEN "Applied external hunk"
                                 ELSE "Resolved conflict from hunks"
               ELSE /\ status' = "No conflict hunks"
                    /\ UNCHANGED selected_conflict_hunk
    /\ KeyFrame

KeyCtrlQ ==
    /\ running' = FALSE
    /\ loop_result' = "Ok"
    /\ UNCHANGED <<bufvars, readonly, disk, watch_rx, selected_conflict_hunk,
                   status>>

\* run_loop: the first half of an iteration. An iteration that reads no
\* key is this step alone.
AppWatch ==
    /\ LoopRunning
    /\ handle_watch_updates
    /\ UNCHANGED <<scenvars, diffvars, libvars>>

\* run_loop: the second half of an iteration, when a key is read. The
\* messages still queued are those sent since the first half drained.
AtInput ==
    /\ LoopRunning
    /\ UNCHANGED <<scenvars, diffvars, libvars>>

AppKeyChar ==
    /\ readonly \/ EditRoom
    /\ \E c \in KeyChars : Len(text) + Len(c) <= MaxLen /\ AtInput /\ KeyChar(c)

AppKeyEnter ==
    /\ readonly \/ EditRoom
    /\ Len(text) + 1 <= MaxLen
    /\ AtInput /\ KeyEnter

AppKeyBackspace == Short /\ (readonly \/ EditRoom) /\ AtInput /\ KeyBackspace

AppKeyArrow == Short /\ AtInput /\ KeyArrow

AppKeyCtrlZ == AtInput /\ KeyCtrlZ

AppKeyCtrlY == AtInput /\ KeyCtrlY

AppKeyCtrlR == AtInput /\ KeyCtrlR

AppKeyCtrlK == AtInput /\ KeyCtrlK

AppKeyCtrlM == Short /\ AtInput /\ KeyCtrlM

AppKeyCtrlS == Short /\ AtInput /\ KeyCtrlS

AppKeyCtrlJ == AtInput /\ move_conflict_hunk(1)

AppKeyCtrlU == AtInput /\ move_conflict_hunk(-1)

AppKeyCtrlE == Short /\ AtInput /\ apply_selected_conflict_hunk

AppKeyCtrlQ == AtInput /\ KeyCtrlQ

NextApp ==
    \/ ExternalWrite
    \/ WatchFailure
    \/ AppWatch
    \/ AppKeyChar
    \/ AppKeyEnter
    \/ AppKeyBackspace
    \/ AppKeyArrow
    \/ AppKeyCtrlZ
    \/ AppKeyCtrlY
    \/ AppKeyCtrlR
    \/ AppKeyCtrlK
    \/ AppKeyCtrlM
    \/ AppKeyCtrlS
    \/ AppKeyCtrlJ
    \/ AppKeyCtrlU
    \/ AppKeyCtrlE
    \/ AppKeyCtrlQ

SpecApp == InitApp /\ [][NextApp]_vars

\* ------------------------- SpecHunk: edits and hunks of a conflicted buffer

\* A buffer over the bytes 'a' and '\n' that is edited, told of external
\* texts and has hunks applied, in any order; every edit pushes a snapshot,
\* so MaxHunkEdits bounds the edits of a run.
HunkTexts == {t \in DiffTexts(MaxHunkLen) : \A k \in 1..Len(t) : t[k] # 98}

InitHunk ==
    /\ \E t \in HunkTexts : new(t)
    /\ phase = "local"
    /\ mark = <<>>
    /\ edits = 0
    /\ undos = 0
    /\ trace = <<>>
    /\ DiffIdle
    /\ LibIdle
    /\ AppIdle

HunkRoom == Len(undo_stack) < MaxHunkEdits

HunkInsertChar ==
    /\ HunkRoom
    /\ Len(text) < MaxHunkLen
    /\ Api /\ insert_char(<<97>>)

HunkInsertNewline == HunkRoom /\ Len(text) < MaxHunkLen /\ Api /\ insert_newline

HunkBackspace == Short /\ HunkRoom /\ Api /\ backspace

HunkMoveLeft == Short /\ Api /\ move_left

HunkMoveRight == Short /\ Api /\ move_right

\* One external text arrives in a run ("local" before it, "conflict" after),
\* while the buffer is dirty.
HunkExternalChange ==
    /\ phase = "local"
    /\ dirty
    /\ ~panicked
    /\ \E e \in HunkTexts : on_external_change(e)
    /\ phase' = "conflict"
    /\ UNCHANGED <<mark, edits, undos, trace, diffvars, libvars, appvars>>

HunkApply == \E i \in 0..MaxHunkLen : Api /\ apply_external_hunk(i)

HunkReload == Api /\ reload_external

HunkMerge == Api /\ merge_external

NextHunk ==
    \/ HunkInsertChar
    \/ HunkInsertNewline
    \/ HunkBackspace
    \/ HunkMoveLeft
    \/ HunkMoveRight
    \/ HunkExternalChange
    \/ HunkApply
    \/ HunkReload
    \/ HunkMerge

SpecHunk == InitHunk /\ [][NextHunk]_vars

\* ------------------------------------------------------------------ claims

\* C1: after any sequence of buffer operations the cursor is within
\* 0..len(text) and on a UTF-8 code-point boundary of the current text (and no
\* String boundary assertion has failed on the way).
C1_CursorOnBoundary ==
    /\ cursor \in 0..Len(text)
    /\ is_char_boundary(text, cursor)
    /\ ~panicked

\* C1 witness: an edited buffer whose cursor stands inside the text, right
\* before the two-byte character.
C1_Witness ==
    /\ dirty
    /\ cursor > 0
    /\ cursor < Len(text)
    /\ text[cursor + 1] = 195

\* C3: on a dirty buffer on_external_change(e) leaves text, cursor and dirty
\* unchanged and sets the conflict record to external = e with the hunks of
\* the diff of the current text against e, whatever record was there before.
C3_DirtyExternalChange ==
    [][\A e \in Externals :
          (dirty /\ Short /\ Api /\ on_external_change(e))
              => /\ UNCHANGED <<text, cursor, dirty>>
                 /\ conflict' = <<[external |-> e,
                                   hunks |-> compute_conflict_hunks(text, e)]>>]_vars

\* C3 witness: a dirty buffer holding the conflict record of the external
\* text "\né", with at least one hunk.
C3_Witness ==
    /\ dirty
    /\ is_conflicted
    /\ conflict[1].external = <<NL, 195, 169>>
    /\ conflict[1].hunks # <<>>

\* C4: on a buffer that is not dirty on_external_change(e) replaces the text
\* with e, puts the cursor at len(e) and leaves the buffer not dirty and not
\* conflicted.
C4_CleanExternalChange ==
    [][\A e \in Externals :
          (~dirty /\ Short /\ Api /\ on_external_change(e))
              => /\ text' = e
                 /\ cursor' = Len(e)
                 /\ ~dirty'
                 /\ conflict' = <<>>]_vars

\* C4 witness: a never-edited buffer (both history stacks empty) that holds
\* the external text "\né" with the cursor at its end.
C4_Witness ==
    /\ undo_stack = <<>>
    /\ redo_stack = <<>>
    /\ text = <<NL, 195, 169>>
    /\ cursor = 3
    /\ ~dirty
    /\ ~is_conflicted

\* C6 as claimed: every step that changes the text, other than undo and redo,
\* pushes the pre-mutation snapshot onto undo_stack and leaves redo_stack
\* empty.
C6_EveryMutationSnapshots ==
    [][(text' # text /\ ~(Api /\ undo) /\ ~(Api /\ redo))
          => /\ undo_stack' = push_history(undo_stack, snapshot)
             /\ redo_stack' = <<>>]_vars

\* C10 as claimed: a conflicted buffer becomes non-conflicted only through
\* keep_local, reload_external, merge_external, an apply_external_hunk that
\* leaves no hunks, or a successful save (stated for the conflict records
\* that hold at least one hunk).
C10_ConflictRemovedOnlyByResolution ==
    [][(is_conflicted /\ conflict[1].hunks # <<>> /\ ~is_conflicted')
          => \/ keep_local
             \/ reload_external
             \/ merge_external
             \/ \E i \in 0..1 : apply_external_hunk(i)
             \/ save_to_path(TRUE)]_vars

\* Substituting, hunk after hunk, each hunk's external_lines for the run of
\* Len(local_lines) lines at local_start; shift is the change in line count
\* the hunks already substituted have made.
RECURSIVE SubstituteHunks(_, _, _)
SubstituteHunks(lines, hunks, shift) ==
    IF hunks = <<>> THEN lines
    ELSE LET h == hunks[1]
             at == h.local_start + shift
         IN  SubstituteHunks(
                 SubSeq(lines, 1, at) \o h.external_lines
                     \o SubSeq(lines, at + Len(h.local_lines) + 1, Len(lines)),
                 Tail(hunks),
                 shift + Len(h.external_lines) - Len(h.local_lines))

\* C2: for all texts A and B, replacing in A's lines, for each hunk of
\* compute_conflict_hunks(A, B) in order, the run local_lines at local_start
\* (which is that run of A's lines) by the hunk's external_lines yields
\* exactly B's lines.
C2_HunksTransformLocalIntoExternal ==
    diff_out # <<>> =>
        LET a_lines == split_lines(diff_in[1])
            hunks == diff_out[1]
        IN  /\ \A k \in 1..Len(hunks) :
                   SubSeq(a_lines, hunks[k].local_start + 1,
                          hunks[k].local_start + Len(hunks[k].local_lines))
                       = hunks[k].local_lines
            /\ SubstituteHunks(a_lines, hunks, 0) = split_lines(diff_in[2])

\* C2 witness: a diff with two hunks, the first of which changes the number
\* of lines, so that the second is substituted at a shifted place.
C2_Witness ==
    /\ diff_out # <<>>
    /\ Len(diff_out[1]) = 2
    /\ Len(diff_out[1][1].local_lines) # Len(diff_out[1][1].external_lines)

\* C5: after a run of N effective edits (N <= MaxRun, far below the history
\* capacity), with cursor moves and searches in between, N consecutive undo
\* calls all return true and restore exactly the text and the cursor that
\* held immediately before the first edit.
C5_UndoRestoresRun ==
    /\ phase # "failed"
    /\ (phase = "undo" /\ undos = edits)
           => (text = mark[1].text /\ cursor = mark[1].cursor)

\* C5 witness: a run of two edits undone by two undos, where the cursor
\* before the first edit was not at the end of the text.
C5_Witness ==
    /\ phase = "undo"
    /\ edits = 2
    /\ undos = 2
    /\ mark[1].cursor < Len(mark[1].text)

\* C7: after an undo, an effective edit discards the redo path: the next
\* redo returns false and leaves text, cursor, dirty and conflict unchanged.
C7_EditDiscardsRedo ==
    [][(phase = "reedit" /\ phase' = "redone")
          => /\ last'.ret = FALSE
             /\ UNCHANGED <<text, cursor, dirty, conflict>>]_vars

\* C7 witness: the redo that followed undo and a new edit has returned.
C7_Witness ==
    /\ phase = "redone"
    /\ undos >= 1
    /\ undo_stack # <<>>

\* C8: neither stack ever holds more than MAX_HISTORY_ENTRIES snapshots, and
\* after k > MAX_HISTORY_ENTRIES edits exactly MAX_HISTORY_ENTRIES consecutive
\* undos succeed, ending at the state that held after edit
\* k - MAX_HISTORY_ENTRIES.
C8_HistoryBounded ==
    /\ Len(undo_stack) <= MAX_HISTORY_ENTRIES
    /\ Len(redo_stack) <= MAX_HISTORY_ENTRIES
    /\ phase = "drained"
           => /\ undos = MAX_HISTORY_ENTRIES
              /\ snapshot = trace[edits - MAX_HISTORY_ENTRIES]

\* C8 witness: two more edits than the history holds, undone until undo
\* returned false.
C8_Witness ==
    /\ phase = "drained"
    /\ edits = MAX_HISTORY_ENTRIES + 2

\* C9: whenever the buffer is conflicted, its conflict record's hunk list is
\* non-empty, on every path of the app that reaches on_external_change.
\* Violated: the reload key calls on_external_change with the file's text
\* without comparing it to the buffer's text.
C9_ConflictHasHunks == is_conflicted => conflict[1].hunks # <<>>

\* C11 as claimed: whenever apply_external_hunk(i) returns true, the buffer
\* is afterwards either not conflicted or conflicted with the same external
\* text and strictly fewer hunks than before the call, from every reachable
\* conflicted state.
C11_ApplyShrinksConflict ==
    [][\A i \in 0..MaxHunkLen :
          (is_conflicted /\ apply_external_hunk(i) /\ last'.ret)
              => IF conflict' = <<>> THEN TRUE
                 ELSE /\ conflict'[1].external = conflict[1].external
                      /\ Len(conflict'[1].hunks) < Len(conflict[1].hunks)]_vars

\* C12: conflict-resolution calls that do not apply are complete no-ops:
\* apply_external_hunk returns false when there is no conflict or the index
\* is not below the number of hunks, reload_external and merge_external do
\* nothing when not conflicted; text, cursor, dirty, conflict, undo_stack and
\* redo_stack are unchanged in all these cases.
C12_UnappliedResolutionIsNoOp ==
    [][/\ \A i \in 0..MaxHunkLen :
              (/\ apply_external_hunk(i)
               /\ IF conflict = <<>> THEN TRUE ELSE i >= Len(conflict[1].hunks))
                  => /\ last'.ret = FALSE
                     /\ UNCHANGED <<text, cursor, dirty, conflict, undo_stack,
                                    redo_stack>>
       /\ (~is_conflicted /\ (reload_external \/ merge_external))
              => UNCHANGED <<text, cursor, dirty, conflict, undo_stack,
                             redo_stack>>]_vars

\* C12 witness: apply_external_hunk has just returned false on a conflicted
\* buffer that holds hunks (in SpecHunk no other call returns false).
C12_Witness ==
    /\ last.ret = FALSE
    /\ is_conflicted
    /\ conflict[1].hunks # <<>>
    /\ undo_stack # <<>>

\* The text C13 gives for a merge of local text l with external text e:
\* "<<<<<<< local\n" + l + "\n=======\n" + e + "\n>>>>>>> external\n".
C13_Merged(l, e) ==
    <<60, 60, 60, 60, 60, 60, 60, 32, 108, 111, 99, 97, 108, 10>> \o l
        \o <<10, 61, 61, 61, 61, 61, 61, 61, 10>> \o e
        \o <<10, 62, 62, 62, 62, 62, 62, 62, 32, 101, 120, 116, 101, 114, 110,
             97, 108, 10>>

\* C13: merge_external on a conflicted buffer with text L and conflict
\* external text E sets the text to exactly the marker text of L and E, sets
\* dirty, puts the cursor at the end and leaves the buffer not conflicted.
C13_MergeWritesMarkers ==
    [][(is_conflicted /\ merge_external)
          => /\ text' = C13_Merged(text, conflict[1].external)
             /\ dirty'
             /\ cursor' = Len(text')
             /\ conflict' = <<>>]_vars

\* C13 witness: the merge of local text "a\n" with external text "\na".
C13_Witness ==
    /\ text = C13_Merged(<<97, 10>>, <<10, 97>>)
    /\ dirty
    /\ ~is_conflicted
    /\ cursor = Len(text)

\* C14: every hunk of compute_conflict_hunks(A, B) has a non-empty
\* local_lines or external_lines; local_lines are the lines of A from
\* local_start on and external_lines the lines of B from external_start on;
\* consecutive hunks ascend strictly on both sides and the lines between
\* them (at least one) are the same in A and B.
C14_HunksAreMaximalRuns ==
    diff_out # <<>> =>
        LET a_lines == split_lines(diff_in[1])
            b_lines == split_lines(diff_in[2])
            hunks == diff_out[1]
            local_end(k) == hunks[k].local_start + Len(hunks[k].local_lines)
            external_end(k) == hunks[k].external_start + Len(hunks[k].external_lines)
        IN  /\ \A k \in 1..Len(hunks) :
                  /\ hunks[k].local_lines # <<>> \/ hunks[k].external_lines # <<>>
                  /\ local_end(k) <= Len(a_lines)
                  /\ external_end(k) <= Len(b_lines)
                  /\ SubSeq(a_lines, hunks[k].local_start + 1, local_end(k))
                        = hunks[k].local_lines
                  /\ SubSeq(b_lines, hunks[k].external_start + 1, external_end(k))
                        = hunks[k].external_lines
            /\ \A k \in 1..(Len(hunks) - 1) :
                  LET gap == hunks[k + 1].local_start - local_end(k)
                  IN  /\ gap >= 1
                      /\ hunks[k + 1].external_start - external_end(k) = gap
                      /\ \A d \in 1..gap :
                            a_lines[local_end(k) + d] = b_lines[external_end(k) + d]

\* Two hunks with an unchanged line between them, one of them a replacement.
C14_Witness ==
    /\ diff_out # <<>>
    /\ Len(diff_out[1]) = 2
    /\ diff_out[1][1].local_lines # <<>>
    /\ diff_out[1][1].external_lines # <<>>

\* Length of a longest common subsequence of a and b, by the textbook
\* recursion on the last elements.
RECURSIVE C15_LcsLength(_, _)
C15_LcsLength(a, b) ==
    IF a = <<>> \/ b = <<>> THEN 0
    ELSE LET fa == SubSeq(a, 1, Len(a) - 1)
             fb == SubSeq(b, 1, Len(b) - 1)
         IN  IF a[Len(a)] = b[Len(b)]
             THEN 1 + C15_LcsLength(fa, fb)
             ELSE Max({C15_LcsLength(fa, b), C15_LcsLength(a, fb)})

\* Number of lines, local and external, held by the hunks.
RECURSIVE C15_HunkLines(_)
C15_HunkLines(hunks) ==
    IF hunks = <<>> THEN 0
    ELSE Len(hunks[1].local_lines) + Len(hunks[1].external_lines)
             + C15_HunkLines(Tail(hunks))

\* C15: the edit script is minimal: the hunks of compute_conflict_hunks(A, B)
\* hold |A| + |B| - 2 * LCS(A, B) lines in all, that is, as many lines stay
\* outside every hunk as a longest common subsequence has; and the diff of
\* a text with itself has no hunks.
C15_EditScriptMinimal ==
    diff_out # <<>> =>
        LET a_lines == split_lines(diff_in[1])
            b_lines == split_lines(diff_in[2])
        IN  /\ C15_HunkLines(diff_out[1])
                  = Len(a_lines) + Len(b_lines) - 2 * C15_LcsLength(a_lines, b_lines)
            /\ diff_in[1] = diff_in[2] => diff_out[1] = <<>>

\* A diff where deleting first would cost more than inserting first: "a\n"
\* against "\na\n" is one inserted line.
C15_Witness ==
    /\ diff_out # <<>>
    /\ diff_in = <<<<97, NL>>, <<NL, 97, NL>>>>
    /\ C15_HunkLines(diff_out[1]) = 1

\* ------------------------------------- SpecSearch: searching and line moves

\* A buffer over "a", "b" and newline that is searched and walked, never
\* edited.  phase names the last call: "left", "right", "up", "down", "goto",
\* "next" after a find_next, with mark = <<cursor before the call, n>>,
\* "back" after a find_prev of the same string that follows a find_next
\* directly, and "prev" after any other find_prev.

SearchTexts == DiffTexts(MaxSearchLen)

\* Search strings: "", and the strings over "a" and "b".
SearchNeedles == {n \in DiffTexts(MaxNeedleLen) : \A k \in 1..Len(n) : n[k] # NL}

InitSearch ==
    /\ \E t \in SearchTexts : new(t)
    /\ ScenIdle
    /\ DiffIdle
    /\ LibIdle
    /\ AppIdle

SearchFrame(p, mk) ==
    /\ ~panicked
    /\ phase' = p
    /\ mark' = mk
    /\ UNCHANGED <<edits, undos, trace, diffvars, libvars, appvars>>

SearchMoveLeft == SearchFrame("left", <<>>) /\ move_left

SearchMoveRight == SearchFrame("right", <<>>) /\ move_right

SearchMoveUp == SearchFrame("up", <<>>) /\ move_up

SearchMoveDown == SearchFrame("down", <<>>) /\ move_down

SearchGotoLine ==
    \E k \in 0..(MaxSearchLen + 2) : SearchFrame("goto", <<>>) /\ goto_line(k)

SearchFindNext ==
    \E n \in SearchNeedles : SearchFrame("next", <<cursor, n>>) /\ find_next(n)

SearchFindPrev ==
    \E n \in SearchNeedles :
        /\ IF phase = "next" /\ mark[2] = n
           THEN SearchFrame("back", mark)
           ELSE SearchFrame("prev", <<>>)
        /\ find_prev(n)

NextSearch ==
    \/ SearchMoveLeft
    \/ SearchMoveRight
    \/ SearchMoveUp
    \/ SearchMoveDown
    \/ SearchGotoLine
    \/ SearchFindNext
    \/ SearchFindPrev

SpecSearch == InitSearch /\ [][NextSearch]_vars

\* C16: find_next(needle) returns true, with the cursor at the start of an
\* occurrence, whenever the non-empty needle occurs anywhere in the text,
\* from every cursor position; it returns false, with the cursor unchanged,
\* only when the needle is empty or occurs nowhere.
C16_FindNextFindsNeedle ==
    [][\A n \in SearchNeedles :
          (phase' = "next" /\ find_next(n)) =>
              IF n # <<>> /\ MatchOffsets(text, n) # {}
              THEN last'.ret /\ cursor' \in MatchOffsets(text, n)
              ELSE ~last'.ret /\ cursor' = cursor]_vars

\* C17: find_prev(needle) returns true, with the cursor at the start of an
\* occurrence, whenever the non-empty needle occurs anywhere in the text,
\* from every cursor position, the end of the text included; it returns
\* false, with the cursor unchanged, only when the needle is empty or occurs
\* nowhere.
C17_FindPrevFindsNeedle ==
    [][\A n \in SearchNeedles :
          (phase' \in {"prev", "back"} /\ find_prev(n)) =>
              IF n # <<>> /\ MatchOffsets(text, n) # {}
              THEN last'.ret /\ cursor' \in MatchOffsets(text, n)
              ELSE ~last'.ret /\ cursor' = cursor]_vars

\* C18: for a needle that occurs more than once and a cursor at the start of
\* an occurrence m, find_next(needle) followed by find_prev(needle) leaves
\* the cursor at m again.
C18_FindNextThenPrevReturns ==
    (/\ phase = "back"
     /\ mark[1] \in MatchOffsets(text, mark[2])
     /\ Cardinality(MatchOffsets(text, mark[2])) > 1)
        => cursor = mark[1]

\* The '\n'-separated line the byte offset i of s is on, counted from 0: the
\* number of newlines before i.
C20_LineOf(s, i) == Cardinality({k \in 1..i : s[k] = NL})

\* C20: move_up changes the cursor if and only if the cursor is not on the
\* first line, and move_down changes it if and only if the cursor is not on
\* the last line, the lines being the '\n'-separated ones (a text that ends
\* in '\n' has a final empty line); a cursor that moves lands on the
\* adjacent line.
C20_LineMovesStopAtEnds ==
    [][LET line == C20_LineOf(text, cursor)
           last_line == C20_LineOf(text, Len(text))
       IN  /\ (phase' = "up" /\ move_up) =>
                 /\ cursor' # cursor <=> line # 0
                 /\ cursor' # cursor => C20_LineOf(text, cursor') = line - 1
           /\ (phase' = "down" /\ move_down) =>
                 /\ cursor' # cursor <=> line # last_line
                 /\ cursor' # cursor => C20_LineOf(text, cursor') = line + 1]_vars

\* ------------------------------------------------ SpecReplace: replace_all

\* Buffers over "a" and "b" on which replace_all is called, and undone and
\* redone.

ReplaceTexts == {t \in DiffTexts(MaxReplaceLen) : \A k \in 1..Len(t) : t[k] # NL}

\* Replacement strings: "", "c", "a".
ReplaceWith == {<<>>, <<99>>, <<97>>}

InitReplace ==
    /\ \E t \in ReplaceTexts : new(t)
    /\ ScenIdle
    /\ DiffIdle
    /\ LibIdle
    /\ AppIdle

ReplaceAll ==
    /\ Len(undo_stack) < MaxReplaces
    /\ \E n \in SearchNeedles, r \in ReplaceWith : Api /\ replace_all(n, r)

ReplaceUndo == Api /\ undo

ReplaceRedo == Api /\ redo

NextReplace ==
    \/ ReplaceAll
    \/ ReplaceUndo
    \/ ReplaceRedo

SpecReplace == InitReplace /\ [][NextReplace]_vars

\* The largest number of occurrences of needle in s no two of which overlap.
C19_Occurrences(s, needle) ==
    Max({Cardinality(S) :
            S \in {T \in SUBSET MatchOffsets(s, needle) :
                       \A x \in T, y \in T : x < y => x + Len(needle) <= y}})

\* No character of needle occurs in repl (the strings here are ASCII).
C19_NoCommonChar(needle, repl) ==
    \A i \in 1..Len(needle), j \in 1..Len(repl) : needle[i] # repl[j]

\* C19 as stated: replace_all(needle, repl) with a non-empty needle returns
\* the number of non-overlapping occurrences of needle in the original text,
\* and whenever no character of needle occurs in repl the resulting text
\* contains no occurrence of needle.
C19_ReplaceAllLeavesNoNeedle ==
    [][\A n \in SearchNeedles \ {<<>>}, r \in ReplaceWith :
          replace_all(n, r) =>
              /\ last'.count = C19_Occurrences(text, n)
              /\ C19_NoCommonChar(n, r) => MatchOffsets(text', n) = {}]_vars

\* C19 as amended: replace_all(needle, repl) with a non-empty needle returns
\* the number of non-overlapping occurrences of needle in the original text,
\* and whenever repl is not empty and no character of needle occurs in repl
\* the resulting text contains no occurrence of needle.
C19_ReplaceAllLeavesNoNeedleUnlessEmptyRepl ==
    [][\A n \in SearchNeedles \ {<<>>}, r \in ReplaceWith :
          replace_all(n, r) =>
              /\ last'.count = C19_Occurrences(text, n)
              /\ (r # <<>> /\ C19_NoCommonChar(n, r))
                    => MatchOffsets(text', n) = {}]_vars

\* "aab" after replace_all("a", "c"): two occurrences replaced.
C19_Witness ==
    /\ text = <<99, 99, 98>>
    /\ last.count = 2
    /\ undo_stack # <<>>
    /\ undo_stack[1].text = <<97, 97, 98>>

\* ------------------------------------------- SpecSave: saving and dirtiness

\* A buffer that is edited, undone, refreshed from outside and saved, with
\* saves that fail.  mark = <<the last known external/saved text>>: the text
\* given to new, taken over by a clean on_external_change or by
\* reload_external, or written by the last successful save.  phase is
\* "saved" or "failed" after a save_to_path call, and trace then holds the
\* buffer as it was before that call; it is "undo" after an undo call, "redo"
\* after a redo call and "api" after any other call.

\* Texts a buffer is constructed with: "", "a".
SaveTexts == {<<>>, <<97>>}
\* Texts that arrive from outside: "b".
SaveExternals == {<<98>>}

InitSave ==
    /\ \E t \in SaveTexts : new(t) /\ mark = <<t>>
    /\ phase = "api"
    /\ edits = 0
    /\ undos = 0
    /\ trace = <<>>
    /\ DiffIdle
    /\ LibIdle
    /\ AppIdle

SaveFrame(p, known, tr) ==
    /\ ~panicked
    /\ phase' = p
    /\ mark' = <<known>>
    /\ trace' = tr
    /\ UNCHANGED <<edits, undos, diffvars, libvars, appvars>>

SaveRoom == Len(undo_stack) < MaxSaveEdits

SaveInsertChar ==
    SaveRoom /\ Len(text) < MaxLen /\ SaveFrame("api", mark[1], <<>>) /\ insert_char(<<97>>)

SaveBackspace == SaveRoom /\ SaveFrame("api", mark[1], <<>>) /\ backspace

SaveUndo == SaveFrame("undo", mark[1], <<>>) /\ undo

SaveRedo == SaveFrame("redo", mark[1], <<>>) /\ redo

SaveExternalChange ==
    \E e \in SaveExternals :
        /\ SaveFrame("api", IF dirty THEN mark[1] ELSE e, <<>>)
        /\ on_external_change(e)

SaveKeepLocal == SaveFrame("api", mark[1], <<>>) /\ keep_local

SaveReloadExternal ==
    /\ SaveFrame("api", IF is_conflicted THEN conflict[1].external ELSE mark[1], <<>>)
    /\ reload_external

SaveToPath ==
    \E written \in BOOLEAN :
        /\ SaveFrame(IF written THEN "saved" ELSE "failed",
                     IF written THEN text ELSE mark[1],
                     <<[state |-> snapshot, undo_stack |-> undo_stack,
                        redo_stack |-> redo_stack]>>)
        /\ save_to_path(written)

NextSave ==
    \/ SaveInsertChar
    \/ SaveBackspace
    \/ SaveUndo
    \/ SaveRedo
    \/ SaveExternalChange
    \/ SaveKeepLocal
    \/ SaveReloadExternal
    \/ SaveToPath

SpecSave == InitSave /\ [][NextSave]_vars

\* C21: after a save_to_path that failed with an I/O error the call has
\* returned the error and text, cursor, dirty, conflict, undo_stack and
\* redo_stack are as they were before the call (so what follows, another
\* save included, starts from the same buffer).
C21_FailedSaveLeavesBuffer ==
    phase = "failed" =>
        /\ ~last.ret
        /\ text = trace[1].state.text
        /\ cursor = trace[1].state.cursor
        /\ dirty = trace[1].state.dirty
        /\ conflict = trace[1].state.conflict
        /\ undo_stack = trace[1].undo_stack
        /\ redo_stack = trace[1].redo_stack

\* A failed save of a dirty, conflicted buffer with both stacks in use.
C21_Witness ==
    /\ phase = "failed"
    /\ dirty
    /\ is_conflicted
    /\ undo_stack # <<>>
    /\ redo_stack # <<>>

\* C24: whenever the text differs from the last known external/saved text,
\* dirty is true.
C24_DirtyWhenTextDiffers ==
    text # mark[1] => dirty

\* C22 as stated: when the save key hits an I/O failure, the failure is put
\* in the status text and the control loop keeps running.
C22_FailedSaveKeyKeepsLoop ==
    [][(AppKeyCtrlS /\ ~readonly /\ ~last'.ret)
          => /\ LoopRunning'
             /\ status' # status]_vars

\* C22 as amended: when the save key hits an I/O failure, handle_key returns
\* the error and run_loop ends returning it; the status text and the buffer
\* are left as they were.
C22_FailedSaveKeyEndsLoop ==
    [][(AppKeyCtrlS /\ ~readonly /\ ~last'.ret)
          => /\ loop_result' = "Err"
             /\ ~LoopRunning'
             /\ UNCHANGED <<status, text, cursor, dirty, conflict,
                            undo_stack, redo_stack>>]_vars

\* The loop ended by a failed save of a dirty buffer.
C22_Witness ==
    /\ loop_result = "Err"
    /\ ~last.ret
    /\ dirty
    /\ ~readonly

\* C23: when the reload key is pressed on an unconflicted buffer and the file
\* cannot be read, text, cursor, dirty and conflict are unchanged and the
\* status text reports the failure.  Stated over every reload-key step on
\* an unconflicted buffer: the step either takes over what the file holds,
\* or it leaves the buffer alone and sets a status other than "Reloaded
\* from disk".
C23_FailedReloadKeyLeavesBuffer ==
    [][(AppKeyCtrlR /\ ~is_conflicted)
          => \/ /\ on_external_change(disk)
                /\ status' = "Reloaded from disk"
             \/ /\ UNCHANGED <<text, cursor, dirty, conflict>>
                /\ status' # "Reloaded from disk"]_vars

\* ------------------------------------------- SpecStream: the stream reader

\* read_loop_with_limit as a state machine: one step per read_line call.
\* stream = [max_bytes, acc, tx, input, at_eof, done]: acc is the loop's
\* accumulator, tx the messages sent, oldest first, input everything
\* read_line has returned so far, at_eof that the last line had no newline
\* (only end of input can follow), done that the loop was left.

\* trim_head_to_max_bytes, the while loop: the first char boundary at or
\* after cut.
RECURSIVE trim_cut(_, _)
trim_cut(text_, cut) ==
    IF cut < Len(text_) /\ ~is_char_boundary(text_, cut)
    THEN trim_cut(text_, cut + 1)
    ELSE cut

\* Mutant: the cut moves back to the char boundary before it.
RECURSIVE trim_cut_back(_, _)
trim_cut_back(text_, cut) ==
    IF cut > 0 /\ ~is_char_boundary(text_, cut)
    THEN trim_cut_back(text_, cut - 1)
    ELSE cut

trim_head_to_max_bytes_cuts_back(text_, max_bytes) ==
    IF Len(text_) <= max_bytes THEN [text |-> text_, truncated |-> FALSE]
    ELSE IF max_bytes = 0 THEN [text |-> <<>>, truncated |-> TRUE]
    ELSE [text |-> Slice(text_, trim_cut_back(text_, Len(text_) - max_bytes), Len(text_)),
          truncated |-> TRUE]

\* trim_head_to_max_bytes: the text left and the value returned.
trim_head_to_max_bytes(text_, max_bytes) ==
    IF Len(text_) <= max_bytes THEN [text |-> text_, truncated |-> FALSE]
    ELSE IF max_bytes = 0 THEN [text |-> <<>>, truncated |-> TRUE]
    ELSE [text |-> Slice(text_, trim_cut(text_, Len(text_) - max_bytes), Len(text_)),
          truncated |-> TRUE]

\* The characters of a line: "a" and "é".
StreamChars == {<<97>>, <<195, 169>>}

\* The strings of at most n characters.
RECURSIVE StreamStrings(_)
StreamStrings(n) ==
    IF n = 0 THEN {<<>>}
    ELSE LET shorter == StreamStrings(n - 1)
         IN  shorter \cup {t \o c : t \in shorter, c \in StreamChars}

\* What read_line returns with Ok(n), n > 0: a line with its newline, or the
\* non-empty rest of an input that does not end in a newline.
StreamLines ==
    {t \o <<NL>> : t \in StreamStrings(MaxLineChars)}
        \cup (StreamStrings(MaxLineChars) \ {<<>>})

InitStream ==
    /\ \E max_bytes \in 0..MaxStreamBytes :
           stream = [max_bytes |-> max_bytes, acc |-> <<>>, tx |-> <<>>,
                     input |-> <<>>, at_eof |-> FALSE, done |-> FALSE]
    /\ renderer = <<>>
    /\ render_log = <<>>
    /\ app_stream = <<>>
    /\ BufferIdle
    /\ ScenIdle
    /\ DiffIdle
    /\ AppIdle

StreamFrame ==
    UNCHANGED <<bufvars, scenvars, diffvars, appvars, renderer, render_log, app_stream>>

\* read_line returns Ok(n), n > 0.
StreamReadLine ==
    /\ ~stream.done
    /\ ~stream.at_eof
    /\ Len(stream.tx) < MaxStreamReads
    /\ \E line \in StreamLines :
           LET trimmed == trim_head_to_max_bytes(stream.acc \o line, stream.max_bytes)
           IN  stream' = [stream EXCEPT
                   !.acc = trimmed.text,
                   !.tx = Append(@, [kind |-> "Update", text |-> trimmed.text,
                                     truncated |-> trimmed.truncated]),
                   !.input = @ \o line,
                   !.at_eof = line[Len(line)] # NL]
    /\ StreamFrame

\* read_line returns Ok(0).
StreamEnd ==
    /\ ~stream.done
    /\ stream' = [stream EXCEPT !.tx = Append(@, [kind |-> "End"]), !.done = TRUE]
    /\ StreamFrame

\* read_line returns Err.
StreamError ==
    /\ ~stream.done
    /\ ~stream.at_eof
    /\ stream' = [stream EXCEPT !.tx = Append(@, [kind |-> "Error"]), !.done = TRUE]
    /\ StreamFrame

NextStream ==
    \/ StreamReadLine
    \/ StreamEnd
    \/ StreamError

SpecStream == InitStream /\ [][NextStream]_vars

\* The Update messages sent so far, as indices into tx.
C29_Updates == {i \in 1..Len(stream.tx) : stream.tx[i].kind = "Update"}

\* C29: the Update message sent last carries a text of at most max_bytes
\* bytes that is a suffix of all input read so far and starts on a
\* code-point boundary of that input.  (Every Update message is the last
\* one in the state its read_line step leads to, and nothing is read after
\* an End or Error message.)
C29_UpdateIsBoundedSuffix ==
    C29_Updates # {} =>
        LET update == stream.tx[Max(C29_Updates)]
            start == Len(stream.input) - Len(update.text)
        IN  /\ Len(update.text) <= stream.max_bytes
            /\ start >= 0
            /\ Slice(stream.input, start, Len(stream.input)) = update.text
            /\ is_char_boundary(stream.input, start)

\* An Update whose cut fell inside "é" and moved on to the next boundary.
C29_Witness ==
    /\ stream.max_bytes = 3
    /\ stream.input = <<195, 169, 97, NL>>
    /\ C29_Updates # {}
    /\ stream.tx[Max(C29_Updates)].text = <<97, NL>>

\* C30: the Update message sent last carries truncated = true whenever its
\* text is not the complete input read so far.
C30_TruncationFlagged ==
    C29_Updates # {} =>
        LET update == stream.tx[Max(C29_Updates)]
        IN  update.text # stream.input => update.truncated

\* ------------------------------------------ SpecRender: the preview renderer

\* render_preview_lines as a state machine: one step per parser event.  The
\* parser (pulldown_cmark) is outside the repository; the steps are enabled
\* so that the events form a document it can produce.  Strings are sequences
\* of characters (code points), which is what wrap_line counts.  Links and
\* images are left out, and with them link_stack; inline code, html, math and
\* footnote events act as Text events do.
\*
\* renderer holds the fields of Renderer and one history field, logical: for
\* every line handed to wrap_line, the line, what it was ("text", "code",
\* "fence", "row", "sep", "rule"), the block-quote depth, and the index and
\* number of the output lines it was emitted as.
\*
\* render_log = [ctx, blocks, texts, brk, items, cols, cells, rows, code,
\* tables, done]: ctx is the stack of open tags, the counters bound the
\* document, code the source lines of the code blocks with their depth, and
\* tables, for every table, its header cells and rows as the events gave
\* them, with the first and last logical line of the table.

RECURSIVE Repeat(_, _)
Repeat(s, n) == IF n = 0 THEN <<>> ELSE s \o Repeat(s, n - 1)

\* wrap_line, the loop over input.chars() from character i on.
RECURSIVE wrap_loop(_, _, _, _)
wrap_loop(input, width, i, buf) ==
    IF i > Len(input) THEN (IF buf # <<>> THEN <<buf>> ELSE <<>>)
    ELSE LET pushed == Append(buf, input[i])
         IN  IF Len(pushed) = width
             THEN <<pushed>> \o wrap_loop(input, width, i + 1, <<>>)
             ELSE wrap_loop(input, width, i + 1, pushed)

\* Mutant: chunks one character shorter than the width.
wrap_line_short_chunks(input, width) ==
    IF Len(input) <= width THEN <<input>>
    ELSE wrap_loop(input, width - 1, 1, <<>>)

wrap_line(input, width) ==
    IF Len(input) <= width THEN <<input>>
    ELSE wrap_loop(input, width, 1, <<>>)

\* Renderer::new
Renderer_new(width) ==
    [width |-> width, lines |-> <<>>, current |-> <<>>, blockquote_depth |-> 0,
     pending_prefix |-> <<>>, list_stack |-> <<>>, in_code_block |-> FALSE,
     table_head_needs_separator |-> FALSE, in_table_cell |-> FALSE,
     table_row |-> <<>>, table_cell |-> <<>>, logical |-> <<>>]

\* "> "
QuoteMark == <<62, 32>>

quote_prefix(r) == Repeat(QuoteMark, r.blockquote_depth)

\* The loop "for wrapped in wrap_line(&line, self.width) { self.lines.push }"
\* of flush_current and push_line, with the entry of the history field.
emit_wrapped(r, line, kind) ==
    LET wrapped == wrap_line(line, r.width)
    IN  [r EXCEPT !.lines = @ \o wrapped,
                  !.logical = Append(@, [line |-> line, kind |-> kind,
                                         depth |-> r.blockquote_depth,
                                         first |-> Len(r.lines) + 1,
                                         count |-> Len(wrapped)])]

\* append_text with an empty link_stack; pending_prefix is <<>> for None and
\* <<prefix>> for Some(prefix).
append_text(r, t) ==
    IF r.in_table_cell THEN [r EXCEPT !.table_cell = @ \o t]
    ELSE IF r.current = <<>>
         THEN [r EXCEPT !.current = quote_prefix(r)
                            \o (IF r.pending_prefix = <<>> THEN <<>>
                                ELSE r.pending_prefix[1])
                            \o t,
                        !.pending_prefix = <<>>]
         ELSE [r EXCEPT !.current = @ \o t]

flush_current(r) ==
    IF r.current = <<>> THEN r
    ELSE emit_wrapped([r EXCEPT !.current = <<>>], r.current, "text")

push_line(r, line, kind) == emit_wrapped(flush_current(r), line, kind)

\* push_code_text, the loop over text.split('\n') from chunk i on: a last
\* empty chunk is dropped.
RECURSIVE push_code_chunks(_, _, _)
push_code_chunks(r, chunks, i) ==
    IF i > Len(chunks) THEN r
    ELSE IF chunks[i] = <<>> /\ i = Len(chunks) THEN r
    ELSE push_code_chunks(push_line(r, quote_prefix(r) \o chunks[i], "code"),
                          chunks, i + 1)

push_code_text(r, t) == push_code_chunks(r, split_lines(t), 1)

\* heading_prefix: level times "#", then a space.
heading_prefix(level) == Repeat(<<35>>, level) \o <<32>>

\* [String]::join(" | ")
RECURSIVE join_cells(_)
join_cells(cells) ==
    IF cells = <<>> THEN <<>>
    ELSE IF Len(cells) = 1 THEN cells[1]
    ELSE cells[1] \o <<32, 124, 32>> \o join_cells(Tail(cells))

\* format!("| {} |", cells.join(" | "))
table_line(cells) == <<124, 32>> \o join_cells(cells) \o <<32, 124>>

\* Widths a preview is rendered at; the renderer works with max(width, 8).
RenderWidths == {4, 12}
\* Text of an inline Text event: "x", "yyyyyyyy".
RenderTexts == {<<120>>, <<121, 121, 121, 121, 121, 121, 121, 121>>}
\* Text of a Text event in a code block: "x\nx\n", "zzzzzzzzz\n".
CodeTexts == {<<120, NL, 120, NL>>,
              <<122, 122, 122, 122, 122, 122, 122, 122, 122, NL>>}
\* Text of a table cell: "a", "b".
CellTexts == {<<97>>, <<98>>}
\* Info strings of a code block: none, "r".
CodeLangs == {<<>>, <<114>>}
\* Heading levels: H1, H6.
HeadingLevels == {1, 6}

Top(ctx) == ctx[Len(ctx)]
Pop(ctx) == SubSeq(ctx, 1, Len(ctx) - 1)

InitRender ==
    /\ \E width \in RenderWidths : renderer = Renderer_new(Max({width, 8}))
    /\ render_log = [ctx |-> <<>>, blocks |-> 0, texts |-> 0, brk |-> FALSE,
                     items |-> 0, cols |-> 0, cells |-> 0, rows |-> 0,
                     code |-> <<>>, tables |-> <<>>, done |-> FALSE]
    /\ stream = <<>>
    /\ app_stream = <<>>
    /\ BufferIdle
    /\ ScenIdle
    /\ DiffIdle
    /\ AppIdle

\* The number of the list item the event stream is in, 0 outside items: the
\* items are numbered as they start.
CurrentItem ==
    IF \E k \in 1..Len(render_log.ctx) : render_log.ctx[k] = "item"
    THEN Len(render_log.bullets)
    ELSE 0

\* An event takes the renderer to r and the log to g. The lines the event
\* emits are those of the content before it: in SpecBullets owner gives, for
\* each logical line, the item the stream was in.
RenderStep(r, g) ==
    /\ renderer' = r
    /\ render_log' =
           IF "owner" \in DOMAIN g
           THEN [g EXCEPT !.owner =
                     @ \o [k \in 1..(Len(r.logical) - Len(renderer.logical))
                              |-> CurrentItem]]
           ELSE g
    /\ UNCHANGED <<bufvars, scenvars, diffvars, appvars, stream, app_stream>>

\* A paragraph or a heading can start here: at the top of the document, in a
\* block quote or in a list item.
AtBlockLevel ==
    /\ ~render_log.done
    /\ IF render_log.ctx = <<>> THEN TRUE
       ELSE Top(render_log.ctx) \in {"quote", "item"}

\* Any other block can start here: the list items of the documents rendered
\* hold paragraphs and headings only.
AtContainerLevel ==
    /\ ~render_log.done
    /\ IF render_log.ctx = <<>> THEN TRUE
       ELSE Top(render_log.ctx) = "quote"

In(tag) ==
    /\ render_log.ctx # <<>>
    /\ Top(render_log.ctx) = tag

BlockRoom == render_log.blocks < MaxBlocks

\* Start(Paragraph): the arm "_ => {}".
RenderStartParagraph ==
    /\ AtBlockLevel /\ BlockRoom
    /\ RenderStep(renderer,
                  [render_log EXCEPT !.ctx = Append(@, "para"), !.blocks = @ + 1,
                                     !.texts = 0, !.brk = FALSE])

\* End(Paragraph)
RenderEndParagraph ==
    /\ In("para") /\ render_log.texts > 0 /\ ~render_log.brk
    /\ RenderStep(flush_current(renderer), [render_log EXCEPT !.ctx = Pop(@)])

\* Start(Heading)
RenderStartHeading ==
    /\ AtBlockLevel /\ BlockRoom
    /\ \E level \in HeadingLevels :
           RenderStep(append_text(flush_current(renderer), heading_prefix(level)),
                      [render_log EXCEPT !.ctx = Append(@, "heading"),
                                         !.blocks = @ + 1,
                                         !.texts = MaxTexts - 1, !.brk = FALSE])

\* End(Heading)
RenderEndHeading ==
    /\ In("heading")
    /\ RenderStep(flush_current(renderer), [render_log EXCEPT !.ctx = Pop(@)])

\* The lines of a code text: its '\n'-separated pieces, without the empty
\* piece after a final '\n'.
CodeSourceLines(t) ==
    LET pieces == split_lines(t)
    IN  IF pieces[Len(pieces)] = <<>> THEN Pop(pieces) ELSE pieces

\* Event::Text in a paragraph or a heading
RenderInlineText ==
    /\ In("para") \/ In("heading")
    /\ render_log.texts < MaxTexts
    /\ ~renderer.in_code_block
    /\ \E t \in RenderTexts :
           RenderStep(append_text(renderer, t),
                      [render_log EXCEPT !.texts = @ + 1, !.brk = FALSE])

\* Event::Text
RenderText ==
    \/ RenderInlineText
    \/ /\ In("cell")
       /\ render_log.texts = 0
       /\ ~renderer.in_code_block
       /\ \E t \in CellTexts :
              LET n == Len(render_log.tables)
                  table == render_log.tables[n]
                  logged == IF table.rows = <<>>
                            THEN [table EXCEPT !.head = Append(@, t)]
                            ELSE [table EXCEPT !.rows[Len(table.rows)] = Append(@, t)]
              IN  RenderStep(append_text(renderer, t),
                             [render_log EXCEPT !.texts = 1, !.tables[n] = logged])
    \/ /\ In("code")
       /\ render_log.texts < MaxTexts
       /\ renderer.in_code_block
       /\ \E t \in CodeTexts :
              LET src == CodeSourceLines(t)
              IN  RenderStep(push_code_text(renderer, t),
                             [render_log EXCEPT
                                 !.texts = @ + 1,
                                 !.code = @ \o [k \in 1..Len(src) |->
                                                  [depth |-> renderer.blockquote_depth,
                                                   src |-> src[k]]]])

BreakHere ==
    /\ In("para")
    /\ render_log.texts > 0
    /\ render_log.texts < MaxTexts
    /\ ~render_log.brk

\* Event::SoftBreak, outside a link
RenderSoftBreak ==
    /\ BreakHere
    /\ RenderStep(flush_current(renderer), [render_log EXCEPT !.brk = TRUE])

\* Event::HardBreak
RenderHardBreak ==
    /\ BreakHere
    /\ RenderStep(flush_current(renderer), [render_log EXCEPT !.brk = TRUE])

\* Start(BlockQuote)
RenderStartBlockQuote ==
    /\ AtContainerLevel /\ BlockRoom
    /\ renderer.blockquote_depth < MaxQuoteDepth
    /\ RenderStep([flush_current(renderer) EXCEPT !.blockquote_depth = @ + 1],
                  [render_log EXCEPT !.ctx = Append(@, "quote")])

\* End(BlockQuote)
RenderEndBlockQuote ==
    /\ In("quote")
    /\ RenderStep([flush_current(renderer) EXCEPT
                      !.blockquote_depth = Max({@ - 1, 0})],
                  [render_log EXCEPT !.ctx = Pop(@)])

\* Start(List(start)): start is None or Some(1).
RenderStartList ==
    /\ AtContainerLevel /\ BlockRoom
    /\ \A k \in 1..Len(render_log.ctx) : render_log.ctx[k] # "list"
    /\ \E ordered \in BOOLEAN :
           RenderStep([flush_current(renderer) EXCEPT
                          !.list_stack = Append(@, [ordered |-> ordered,
                                                    next_index |-> 1])],
                      [render_log EXCEPT !.ctx = Append(@, "list"), !.items = 0])

\* Start(Item)
RenderStartItem ==
    /\ In("list")
    /\ render_log.items < MaxItems
    /\ BlockRoom
    /\ "bullets" \in DOMAIN render_log => Len(render_log.bullets) < MaxBullets
    /\ LET r == flush_current(renderer)
           n == Len(r.list_stack)
           list == r.list_stack[n]
           bullet == IF list.ordered THEN <<48 + list.next_index, 46, 32>>
                     ELSE <<45, 32>>
           prefix == Repeat(<<32, 32>>, Max({n - 1, 0})) \o bullet
       IN  RenderStep([r EXCEPT !.list_stack[n].next_index =
                                    IF list.ordered THEN @ + 1 ELSE @,
                                !.pending_prefix = <<prefix>>],
                      IF "bullets" \in DOMAIN render_log
                      THEN [render_log EXCEPT !.ctx = Append(@, "item"),
                                              !.items = @ + 1,
                                              !.bullets = Append(@, prefix)]
                      ELSE [render_log EXCEPT !.ctx = Append(@, "item"),
                                              !.items = @ + 1])

\* End(Item)
RenderEndItem ==
    /\ In("item")
    /\ RenderStep(flush_current(renderer), [render_log EXCEPT !.ctx = Pop(@)])

\* End(List)
RenderEndList ==
    /\ In("list")
    /\ render_log.items > 0
    /\ RenderStep([flush_current(renderer) EXCEPT !.list_stack = Pop(@)],
                  [render_log EXCEPT !.ctx = Pop(@)])

\* "```"
Fence == <<96, 96, 96>>

\* Start(CodeBlock(kind))
RenderStartCodeBlock ==
    /\ AtContainerLevel /\ BlockRoom
    /\ \E lang \in CodeLangs :
           LET r == [flush_current(renderer) EXCEPT !.in_code_block = TRUE]
           IN  RenderStep(push_line(r, quote_prefix(r) \o Fence \o lang, "fence"),
                          [render_log EXCEPT !.ctx = Append(@, "code"),
                                             !.blocks = @ + 1, !.texts = 0])

\* End(CodeBlock)
RenderEndCodeBlock ==
    /\ In("code")
    /\ LET r == [flush_current(renderer) EXCEPT !.in_code_block = FALSE]
       IN  RenderStep(push_line(r, quote_prefix(r) \o Fence, "fence"),
                      [render_log EXCEPT !.ctx = Pop(@)])

\* Event::Rule
RenderRule ==
    /\ AtContainerLevel /\ BlockRoom
    /\ LET r == flush_current(renderer)
       IN  RenderStep(push_line(r, quote_prefix(r) \o <<45, 45, 45>>, "rule"),
                      [render_log EXCEPT !.blocks = @ + 1])

\* Start(Table): a table of cols columns begins.
RenderStartTable ==
    /\ AtContainerLevel /\ BlockRoom
    /\ \E cols \in 1..MaxCols :
           LET r == flush_current(renderer)
           IN  RenderStep(r,
                   [render_log EXCEPT
                       !.ctx = Append(@, "table"), !.blocks = @ + 1,
                       !.cols = cols, !.rows = -1,
                       !.tables = Append(@, [first |-> Len(r.logical) + 1, last |-> 0,
                                             depth |-> r.blockquote_depth,
                                             head |-> <<>>, rows |-> <<>>])])

\* Start(TableHead)
RenderStartTableHead ==
    /\ In("table")
    /\ render_log.rows = -1
    /\ RenderStep([flush_current(renderer) EXCEPT
                      !.table_head_needs_separator = TRUE],
                  [render_log EXCEPT !.ctx = Append(@, "head"), !.cells = 0])

\* Start(TableCell)
RenderStartTableCell ==
    /\ In("head") \/ In("row")
    /\ render_log.cells < render_log.cols
    /\ RenderStep([renderer EXCEPT !.in_table_cell = TRUE, !.table_cell = <<>>],
                  [render_log EXCEPT !.ctx = Append(@, "cell"), !.texts = 0])

\* End(TableCell)
RenderEndTableCell ==
    /\ In("cell")
    /\ render_log.texts = 1
    /\ RenderStep([renderer EXCEPT !.in_table_cell = FALSE,
                                   !.table_row = Append(@, renderer.table_cell),
                                   !.table_cell = <<>>],
                  [render_log EXCEPT !.ctx = Pop(@), !.cells = @ + 1])

\* End(TableHead)
RenderEndTableHead ==
    /\ In("head")
    /\ render_log.cells = render_log.cols
    /\ LET r == renderer
           row == push_line(r, quote_prefix(r) \o table_line(r.table_row), "row")
           sep == push_line(row,
                      quote_prefix(r)
                          \o table_line([k \in 1..Len(r.table_row) |-> <<45>>]),
                      "sep")
       IN  RenderStep(IF r.table_head_needs_separator /\ r.table_row # <<>>
                      THEN [sep EXCEPT !.table_row = <<>>,
                                       !.table_head_needs_separator = FALSE]
                      ELSE r,
                      [render_log EXCEPT !.ctx = Pop(@), !.rows = 0])

\* Start(TableRow)
RenderStartTableRow ==
    /\ In("table")
    /\ render_log.rows >= 0
    /\ render_log.rows < MaxRows
    /\ LET n == Len(render_log.tables)
       IN  RenderStep([flush_current(renderer) EXCEPT !.table_row = <<>>],
                      [render_log EXCEPT !.ctx = Append(@, "row"), !.cells = 0,
                                         !.tables[n].rows = Append(@, <<>>)])

\* End(TableRow)
RenderEndTableRow ==
    /\ In("row")
    /\ render_log.cells = render_log.cols
    /\ LET r == renderer
       IN  RenderStep(push_line(r, quote_prefix(r) \o table_line(r.table_row), "row"),
                      [render_log EXCEPT !.ctx = Pop(@), !.rows = @ + 1])

\* End(Table): the arm "_ => {}".
RenderEndTable ==
    /\ In("table")
    /\ render_log.rows >= 0
    /\ LET n == Len(render_log.tables)
       IN  RenderStep(renderer,
                      [render_log EXCEPT !.ctx = Pop(@),
                                         !.tables[n].last = Len(renderer.logical)])

\* The end of the events: the last flush, and the single empty line of an
\* empty result.
RenderFinish ==
    /\ render_log.ctx = <<>>
    /\ ~render_log.done
    /\ LET r == flush_current(renderer)
       IN  RenderStep(IF r.lines = <<>> THEN [r EXCEPT !.lines = <<<<>>>>] ELSE r,
                      [render_log EXCEPT !.done = TRUE])

NextRender ==
    \/ RenderStartParagraph
    \/ RenderEndParagraph
    \/ RenderStartHeading
    \/ RenderEndHeading
    \/ RenderText
    \/ RenderSoftBreak
    \/ RenderHardBreak
    \/ RenderStartBlockQuote
    \/ RenderEndBlockQuote
    \/ RenderStartList
    \/ RenderStartItem
    \/ RenderEndItem
    \/ RenderEndList
    \/ RenderStartCodeBlock
    \/ RenderEndCodeBlock
    \/ RenderRule
    \/ RenderStartTable
    \/ RenderStartTableHead
    \/ RenderStartTableCell
    \/ RenderEndTableCell
    \/ RenderEndTableHead
    \/ RenderStartTableRow
    \/ RenderEndTableRow
    \/ RenderEndTable
    \/ RenderFinish

SpecRender == InitRender /\ [][NextRender]_vars

\* The output lines of a logical line, in order.
Chunks(e) == [k \in 1..e.count |-> renderer.lines[e.first + k - 1]]

RECURSIVE Concat(_)
Concat(seqs) == IF seqs = <<>> THEN <<>> ELSE Head(seqs) \o Concat(Tail(seqs))

LogicalLines == {renderer.logical[k] : k \in 1..Len(renderer.logical)}

\* C25: with W = max(w, 8), no rendered line outside the interior of a fenced
\* code block has more than W characters, and a logical line longer than W
\* is emitted as consecutive chunks of exactly W characters (only the last
\* may be shorter, none is empty) whose concatenation is the logical line.
C25_LinesWrappedAtWidth ==
    renderer # <<>> =>
        \A e \in LogicalLines :
            e.kind # "code" =>
                /\ \A k \in 1..e.count : Len(Chunks(e)[k]) <= renderer.width
                /\ Concat(Chunks(e)) = e.line
                /\ Len(e.line) > renderer.width =>
                       /\ \A k \in 1..(e.count - 1) :
                              Len(Chunks(e)[k]) = renderer.width
                       /\ Chunks(e)[e.count] # <<>>

\* A paragraph line longer than the width has been emitted in several chunks,
\* the last one shorter than the width.
C25_Witness ==
    /\ renderer # <<>>
    /\ \E e \in LogicalLines :
           /\ e.kind = "text"
           /\ Len(e.line) > renderer.width
           /\ e.count >= 2
           /\ Len(Chunks(e)[e.count]) < renderer.width

\* The logical lines that came from the interior of code blocks, in order.
CodeLines == SelectSeq(renderer.logical, LAMBDA e : e.kind = "code")

\* C26: each interior line of a code block is emitted as exactly one output
\* line, the block-quote prefix followed by the source line verbatim,
\* whatever the target width.
C26_CodeLinesVerbatim ==
    renderer # <<>> =>
        /\ Len(CodeLines) = Len(render_log.code)
        /\ \A k \in 1..Len(CodeLines) :
               /\ CodeLines[k].count = 1
               /\ renderer.lines[CodeLines[k].first]
                      = Repeat(QuoteMark, render_log.code[k].depth)
                            \o render_log.code[k].src

IsPrefix(p, s) == Len(p) <= Len(s) /\ SubSeq(s, 1, Len(p)) = p

\* C27: every output line emitted while the block-quote depth is d > 0
\* starts with "> " repeated d times, each chunk of a wrapped line included.
C27_QuotedLinesPrefixed ==
    renderer # <<>> =>
        \A e \in LogicalLines :
            e.depth > 0 =>
                \A k \in 1..e.count :
                    IsPrefix(Repeat(QuoteMark, e.depth), Chunks(e)[k])

\* "| c1 | ... | cn |"
RECURSIVE C28_Cells(_)
C28_Cells(cells) ==
    IF cells = <<>> THEN <<>>
    ELSE <<32>> \o Head(cells) \o <<32, 124>> \o C28_Cells(Tail(cells))

C28_Row(depth, cells) == Repeat(QuoteMark, depth) \o <<124>> \o C28_Cells(cells)

\* C28: for every table of the document, the renderer emits one header row
\* with exactly that table's header cells, then one separator line with as
\* many "-" cells, then one row line per body row with exactly that row's
\* cells. The rows are taken before wrapping.
C28_TableRows ==
    renderer # <<>> =>
        \A k \in 1..Len(render_log.tables) :
            LET table == render_log.tables[k]
                n == Len(table.head)
                emitted == [i \in 1..(table.last - table.first + 1) |->
                               renderer.logical[table.first + i - 1].line]
            IN  table.last > 0 =>
                    emitted = <<C28_Row(table.depth, table.head),
                                C28_Row(table.depth, [c \in 1..n |-> <<45>>])>>
                              \o [i \in 1..Len(table.rows) |->
                                     C28_Row(table.depth, table.rows[i])]

\* ------------------------------- SpecBullets: the bullets of the list items

\* The documents of SpecRender without code blocks and tables, with the
\* prefix of every item started (bullets) and the item of every logical
\* line (owner) on the log.
InitBullets ==
    /\ \E width \in RenderWidths : renderer = Renderer_new(Max({width, 8}))
    /\ render_log = [ctx |-> <<>>, blocks |-> 0, texts |-> 0, brk |-> FALSE,
                     items |-> 0, cols |-> 0, cells |-> 0, rows |-> 0,
                     code |-> <<>>, tables |-> <<>>, done |-> FALSE,
                     bullets |-> <<>>, owner |-> <<>>]
    /\ stream = <<>>
    /\ app_stream = <<>>
    /\ BufferIdle
    /\ ScenIdle
    /\ DiffIdle
    /\ AppIdle

NextBullets ==
    \/ RenderStartParagraph
    \/ RenderEndParagraph
    \/ RenderStartHeading
    \/ RenderEndHeading
    \/ RenderInlineText
    \/ RenderSoftBreak
    \/ RenderHardBreak
    \/ RenderStartBlockQuote
    \/ RenderEndBlockQuote
    \/ RenderStartList
    \/ RenderStartItem
    \/ RenderEndItem
    \/ RenderEndList
    \/ RenderRule
    \/ RenderFinish

SpecBullets == InitBullets /\ [][NextBullets]_vars

\* The logical lines item j produced, as indices into renderer.logical.
C40_LinesOf(j) == {k \in 1..Len(render_log.owner) : render_log.owner[k] = j}

\* Logical line k starts, after its block-quote prefix, with bullet b.
C40_StartsWith(k, b) ==
    IsPrefix(Repeat(QuoteMark, renderer.logical[k].depth) \o b,
             renderer.logical[k].line)

\* C40: each list item's bullet prefix is at the start of the first line the
\* item produced, and no other line starts with a bullet prefix: not a later
\* line of the item, and not a line produced outside the items. The texts
\* and heading prefixes rendered begin with no bullet of their own.
C40_BulletOnFirstItemLine ==
    renderer # <<>> =>
        /\ \A j \in 1..Len(render_log.bullets) :
               C40_LinesOf(j) # {} =>
                   C40_StartsWith(Min(C40_LinesOf(j)), render_log.bullets[j])
        /\ \A k \in 1..Len(render_log.owner) :
               (render_log.owner[k] = 0
                    \/ k # Min(C40_LinesOf(render_log.owner[k]))) =>
                   \A b \in {<<45, 32>>, <<49, 46, 32>>} : ~C40_StartsWith(k, b)

\* C34: whenever the buffer is conflicted, the stored hunks equal
\* compute_conflict_hunks(current text, conflict.external), also after edits
\* made while conflicted.
C34_HunksDescribeText ==
    is_conflicted =>
        conflict[1].hunks = compute_conflict_hunks(text, conflict[1].external)

\* C35: a conflicted buffer is always dirty, also in the states that undo and
\* redo restore.
C35_ConflictedIsDirty == is_conflicted => dirty

\* An undo or a redo has just restored a conflicted state.
C35_Witness ==
    /\ phase \in {"undo", "redo"}
    /\ last.ret
    /\ is_conflicted

\* ------------------------------ SpecResolve: resolving a conflict by hunks

\* The buffer of SpecHunk until, in a conflicted state with at least one
\* hunk, its owner starts to resolve ("resolving"); from then on the only call
\* is apply_external_hunk(0), made as long as the buffer is conflicted, and
\* edits counts these calls.  The owner goes on calling while there is a
\* conflict, which is the fairness of SpecResolve.

ResolveOther ==
    /\ phase # "resolving"
    /\ NextHunk

ResolveBegin ==
    /\ phase # "resolving"
    /\ ~panicked
    /\ is_conflicted
    /\ conflict[1].hunks # <<>>
    /\ phase' = "resolving"
    /\ edits' = 0
    /\ UNCHANGED <<bufvars, mark, undos, trace, diffvars, libvars, appvars>>

ResolveApply ==
    /\ phase = "resolving"
    /\ ~panicked
    /\ is_conflicted
    /\ apply_external_hunk(0)
    /\ edits' = edits + 1
    /\ UNCHANGED <<phase, mark, undos, trace, diffvars, libvars, appvars>>

NextResolve ==
    \/ ResolveOther
    \/ ResolveBegin
    \/ ResolveApply

\* ENABLED <<ResolveApply>>_vars: apply_external_hunk(0) is defined in every
\* state, and on a conflicted buffer with a hunk it returns true, which
\* changes edits.
ResolveApplyEnabled ==
    /\ phase = "resolving"
    /\ ~panicked
    /\ is_conflicted

\* Weak fairness of ResolveApply, with its enabling condition written out.
SpecResolve ==
    /\ InitHunk
    /\ [][NextResolve]_vars
    /\ ([]<>~ResolveApplyEnabled \/ []<><<ResolveApply>>_vars)

\* C36: from any conflicted state with at least one hunk, repeated calls of
\* apply_external_hunk(0) reach a state without conflict after finitely many
\* calls, and whenever apply_external_hunk clears the conflict the text
\* equals the conflict's external text.
C36_ApplyingResolves ==
    /\ (phase = "resolving") ~> (phase = "resolving" /\ ~is_conflicted)
    /\ [][\A i \in 0..MaxHunkLen :
             (is_conflicted /\ apply_external_hunk(i) /\ ~is_conflicted')
                 => text' = conflict[1].external]_vars

\* A conflict that took two calls of apply_external_hunk(0) to resolve.
C36_Witness ==
    /\ phase = "resolving"
    /\ edits = 2
    /\ ~is_conflicted
    /\ last.ret

\* ---------------------------- SpecPatch: the hunks left by an applied hunk

\* A buffer whose text is up to MaxPatchLines lines, each "", "a" or "b".
\* It is made dirty by a character typed and deleted again, is told of an
\* external text of the same kind, and then has hunks applied in any order.
\* After an apply_external_hunk call phase is "applied" and mark holds the
\* hunks stored before the call, the index given, the text before the call
\* and the conflict's external text.

PatchLines == {<<>>, <<97>>, <<98>>}

RECURSIVE PatchLineSeqs(_)
PatchLineSeqs(n) ==
    IF n = 0 THEN {<<>>}
    ELSE LET shorter == PatchLineSeqs(n - 1)
         IN  shorter \cup {Append(ls, l) : ls \in {x \in shorter : Len(x) = n - 1},
                                            l \in PatchLines}

PatchTexts == {join_lines(ls) : ls \in PatchLineSeqs(MaxPatchLines) \ {<<>>}}

InitPatch ==
    /\ \E t \in PatchTexts : new(t)
    /\ phase = "local"
    /\ mark = <<>>
    /\ edits = 0
    /\ undos = 0
    /\ trace = <<>>
    /\ DiffIdle
    /\ LibIdle
    /\ AppIdle

PatchFrame(p, mk) ==
    /\ ~panicked
    /\ phase' = p
    /\ mark' = mk
    /\ UNCHANGED <<edits, undos, trace, diffvars, libvars, appvars>>

PatchInsertChar ==
    /\ phase = "local"
    /\ undo_stack = <<>>
    /\ PatchFrame("local", mark)
    /\ insert_char(<<97>>)

PatchBackspace ==
    /\ phase = "local"
    /\ Len(undo_stack) = 1
    /\ PatchFrame("local", mark)
    /\ backspace

PatchExternalChange ==
    /\ phase = "local"
    /\ dirty
    /\ \E e \in PatchTexts :
           /\ PatchFrame("conflict", mark)
           /\ on_external_change(e)

PatchApply ==
    /\ phase \in {"conflict", "applied"}
    /\ is_conflicted
    /\ \E i \in 0..MaxPatchLines :
           /\ PatchFrame("applied", <<conflict[1].hunks, i, text, conflict[1].external>>)
           /\ apply_external_hunk(i)

NextPatch ==
    \/ PatchInsertChar
    \/ PatchBackspace
    \/ PatchExternalChange
    \/ PatchApply

SpecPatch == InitPatch /\ [][NextPatch]_vars

\* The hunk list C37 expects after hunk i (counted from 0) of hunks has been
\* applied: hunks without hunk i, the local_start of every later hunk shifted
\* by |external_lines| - |local_lines| of hunk i.
C37_Patched(hunks, i) ==
    LET shift == Len(hunks[i + 1].external_lines) - Len(hunks[i + 1].local_lines)
    IN  SubSeq(hunks, 1, i)
            \o [k \in 1..(Len(hunks) - i - 1) |->
                   [hunks[i + 1 + k] EXCEPT !.local_start = @ + shift]]

\* C37: if the stored hunks are the diff of the current text against the
\* conflict's external text, a successful apply_external_hunk(i) leaves
\* exactly the old hunk list without hunk i, later hunks shifted.
C37_ApplyPatchesHunks ==
    (/\ phase = "applied"
     /\ last.ret
     /\ mark[1] = compute_conflict_hunks(mark[3], mark[4]))
        => (IF conflict = <<>> THEN <<>> ELSE conflict[1].hunks)
               = C37_Patched(mark[1], mark[2])

\* Hunk 0 of three has been applied, and it changed the number of lines.
C37_Witness ==
    /\ phase = "applied"
    /\ last.ret
    /\ mark[1] = compute_conflict_hunks(mark[3], mark[4])
    /\ Len(mark[1]) = 3
    /\ mark[2] = 0
    /\ Len(mark[1][1].external_lines) # Len(mark[1][1].local_lines)

\* C39: after every handled key and every handled notification, a buffer
\* conflicted with a non-empty hunk list has selected_conflict_hunk below
\* the number of hunks, and hunk navigation wraps: next from the last hunk
\* selects hunk 0, previous from hunk 0 selects the last hunk.
C39_SelectionAddressesHunk ==
    [][LET len == Len(conflict[1].hunks)
           sel == selected_conflict_hunk
       IN  /\ (is_conflicted' /\ conflict'[1].hunks # <<>>)
                  => selected_conflict_hunk' < Len(conflict'[1].hunks)
           /\ (AppKeyCtrlJ /\ is_conflicted /\ conflict[1].hunks # <<>>)
                  => selected_conflict_hunk' = IF sel = len - 1 THEN 0 ELSE sel + 1
           /\ (AppKeyCtrlU /\ is_conflicted /\ conflict[1].hunks # <<>>)
                  => selected_conflict_hunk' = IF sel = 0 THEN len - 1 ELSE sel - 1]_vars

\* The last hunk of at least two is selected after a navigation key.
C39_Witness ==
    /\ is_conflicted
    /\ Len(conflict[1].hunks) >= 2
    /\ selected_conflict_hunk = Len(conflict[1].hunks) - 1
    /\ status = "Conflict hunk"

\* ----------------------------------- SpecReadonly: the loop of a readonly App

\* The App of SpecApp constructed readonly, with the two keys that end a
\* replace prompt: Enter applies replace-next and Ctrl+A replace-all, with
\* the find and replacement strings the prompt has collected.

\* Mutant: replace-next does not look at readonly.
apply_replace_next_unguarded(find, replacement) ==
    /\ IF find = <<>>
       THEN /\ status' = "Replace query empty"
            /\ UNCHANGED <<bufvars, selected_conflict_hunk>>
       ELSE /\ replace_next(find, replacement)
            /\ IF last'.ret
               THEN SyncSelection /\ status' = "Replaced"
               ELSE UNCHANGED selected_conflict_hunk /\ status' = "Not found"
    /\ KeyFrame

apply_replace_next(find, replacement) ==
    /\ IF find = <<>>
       THEN /\ status' = "Replace query empty"
            /\ UNCHANGED <<bufvars, selected_conflict_hunk>>
       ELSE IF readonly
       THEN /\ status' = "Readonly: replace disabled"
            /\ UNCHANGED <<bufvars, selected_conflict_hunk>>
       ELSE /\ replace_next(find, replacement)
            /\ IF last'.ret
               THEN SyncSelection /\ status' = "Replaced"
               ELSE UNCHANGED selected_conflict_hunk /\ status' = "Not found"
    /\ KeyFrame

apply_replace_all(find, replacement) ==
    /\ IF find = <<>>
       THEN /\ status' = "Replace query empty"
            /\ UNCHANGED <<bufvars, selected_conflict_hunk>>
       ELSE IF readonly
       THEN /\ status' = "Readonly: replace disabled"
            /\ UNCHANGED <<bufvars, selected_conflict_hunk>>
       ELSE /\ replace_all(find, replacement)
            /\ IF last'.count > 0
               THEN SyncSelection /\ status' = "Replaced all"
               ELSE UNCHANGED selected_conflict_hunk /\ status' = "Not found"
    /\ KeyFrame

InitReadonly ==
    /\ InitApp
    /\ readonly

AppReplaceNext ==
    \E n \in Needles, r \in Replacements : AtInput /\ apply_replace_next(n, r)

AppReplaceAll ==
    \E n \in Needles, r \in Replacements : AtInput /\ apply_replace_all(n, r)

NextReadonly ==
    \/ NextApp
    \/ AppReplaceNext
    \/ AppReplaceAll

SpecReadonly == InitReadonly /\ [][NextReadonly]_vars

LoopExternals == {<<>>, <<195, 169>>}

InitLoop ==
    /\ \/ /\ \E t \in InitTexts : new(t) /\ disk = t
          /\ readonly \in BOOLEAN
          /\ status = "Ready"
          /\ stream = <<>>
          /\ app_stream = [stream_mode |-> FALSE, stream_done |-> FALSE,
                           interactive_input |-> TRUE, received |-> 0]
       \/ /\ new(<<>>) /\ disk = <<>>
          /\ readonly = TRUE
          /\ status = "Stream mode"
          /\ \E max_bytes \in 0..MaxStreamBytes :
                 stream = [max_bytes |-> max_bytes, acc |-> <<>>, tx |-> <<>>,
                           input |-> <<>>, at_eof |-> FALSE, done |-> FALSE]
          /\ \E interactive \in BOOLEAN :
                 app_stream = [stream_mode |-> TRUE, stream_done |-> FALSE,
                               interactive_input |-> interactive, received |-> 0]
    /\ watch_rx = <<>>
    /\ selected_conflict_hunk = 0
    /\ running = TRUE
    /\ loop_result = "none"
    /\ phase = "api"
    /\ mark = <<>>
    /\ edits = 0
    /\ undos = 0
    /\ trace = <<>>
    /\ DiffIdle
    /\ renderer = <<>>
    /\ render_log = <<>>

\* The StreamMessages sent and not yet received.
stream_rx == SubSeq(stream.tx, app_stream.received + 1, Len(stream.tx))

\* The last Update in the queue: <<>> or <<message>>.
latest_update(queue) ==
    LET updates == {i \in 1..Len(queue) : queue[i].kind = "Update"}
    IN  IF updates = {} THEN <<>> ELSE <<queue[Max(updates)]>>

\* The status the receiving loop of handle_stream_updates leaves: that of
\* the last End or Error received.
stream_drained_status(queue) ==
    LET ends == {i \in 1..Len(queue) : queue[i].kind \in {"End", "Error"}}
    IN  IF ends = {} THEN status
        ELSE IF queue[Max(ends)].kind = "End" THEN "stdin closed | Ctrl+Q quit"
        ELSE "stream error"

handle_stream_updates ==
    LET queue == stream_rx
        latest == latest_update(queue)
        done == app_stream.stream_done \/ \E i \in 1..Len(queue) : queue[i].kind = "End"
        drained == stream_drained_status(queue)
    IN  /\ app_stream' = [app_stream EXCEPT !.received = Len(stream.tx),
                                            !.stream_done = done]
        /\ IF latest = <<>>
           THEN /\ status' = drained
                /\ UNCHANGED <<bufvars, selected_conflict_hunk>>
           ELSE IF latest[1].text = text
           THEN /\ status' = drained
                /\ UNCHANGED <<bufvars, selected_conflict_hunk>>
           ELSE /\ on_external_change(latest[1].text)
                /\ selected_conflict_hunk' =
                       sync_conflict_hunk_selection(conflict', selected_conflict_hunk)
                /\ status' = IF done THEN drained
                             ELSE IF latest[1].truncated
                             THEN "stream update received (trimmed)"
                             ELSE "stream update received"
        /\ UNCHANGED <<readonly, disk>>

\* Another program writes the watched file while the loop runs.
LoopExternalWrite ==
    /\ LoopRunning
    /\ ~app_stream.stream_mode
    /\ Len(watch_rx) < MaxDrainQueue
    /\ \E e \in LoopExternals :
           /\ disk' = e
           /\ watch_rx' = Append(watch_rx, [kind |-> "ExternalUpdate", text |-> e])
    /\ UNCHANGED <<bufvars, scenvars, diffvars, libvars, readonly, selected_conflict_hunk,
                   status, running, loop_result>>

LoopWatchFailure ==
    /\ LoopRunning
    /\ ~app_stream.stream_mode
    /\ Len(watch_rx) < MaxDrainQueue
    /\ watch_rx' = Append(watch_rx, [kind |-> "Error", text |-> <<>>])
    /\ UNCHANGED <<bufvars, scenvars, diffvars, libvars, readonly, disk,
                   selected_conflict_hunk, status, running, loop_result>>

\* The reader thread of a stream App.
LoopStreamReadLine == app_stream.stream_mode /\ StreamReadLine

LoopStreamEnd == app_stream.stream_mode /\ StreamEnd

LoopStreamError == app_stream.stream_mode /\ StreamError

\* run_loop: an iteration up to the key it may read: both drains (the one
\* of the other mode returns at once), the stop of a finished
\* non-interactive stream, and the draw.
LoopIterate ==
    /\ LoopRunning
    /\ IF app_stream.stream_mode
       THEN /\ handle_stream_updates
            /\ trace' = stream_rx
            /\ running' = ~(~app_stream.interactive_input /\ app_stream'.stream_done)
            /\ loop_result' = IF running' THEN "none" ELSE "Ok"
            /\ UNCHANGED <<watch_rx, stream>>
       ELSE /\ handle_watch_updates
            /\ trace' = watch_rx
            /\ UNCHANGED <<stream, app_stream>>
    /\ mark' = <<text'>>
    /\ UNCHANGED <<phase, edits, undos, diffvars, renderer, render_log>>

\* run_loop: the key an iteration with interactive input reads.
LoopKeyChar == app_stream.interactive_input /\ AppKeyChar

LoopKeyCtrlQ == app_stream.interactive_input /\ AppKeyCtrlQ

NextLoop ==
    \/ LoopExternalWrite
    \/ LoopWatchFailure
    \/ LoopStreamReadLine
    \/ LoopStreamEnd
    \/ LoopStreamError
    \/ LoopIterate
    \/ LoopKeyChar
    \/ LoopKeyCtrlQ

\* The main thread keeps iterating while run_loop's flag is set.
SpecLoop == InitLoop /\ [][NextLoop]_vars /\ WF_vars(LoopIterate)

\* The text of the last update message in a queue: <<>> or <<text>>.
RECURSIVE C31_LastUpdate(_)
C31_LastUpdate(queue) ==
    IF queue = <<>> THEN <<>>
    ELSE IF queue[Len(queue)].kind \in {"ExternalUpdate", "Update"}
    THEN <<queue[Len(queue)].text>>
    ELSE C31_LastUpdate(SubSeq(queue, 1, Len(queue) - 1))

C31_Queue == IF app_stream.stream_mode THEN stream_rx ELSE watch_rx

\* C31: an iteration's drain empties the channel of its mode and changes
\* the buffer by exactly one on_external_change, called with the text of
\* the last update queued, or not at all when no update was queued or that
\* last text equals the buffer text; the earlier updates leave no trace.
C31_DrainAppliesLastUpdate ==
    [][LoopIterate =>
          LET l == C31_LastUpdate(C31_Queue)
          IN  /\ IF app_stream.stream_mode
                 THEN app_stream'.received = Len(stream'.tx)
                 ELSE watch_rx' = <<>>
              /\ IF l = <<>>
                 THEN UNCHANGED bufvars
                 ELSE IF l[1] = text
                 THEN UNCHANGED bufvars
                 ELSE on_external_change(l[1])]_vars

\* A drain has received two updates of different texts and the buffer holds
\* the second.
C31_Witness ==
    /\ Len(trace) = 2
    /\ trace[1].kind \in {"ExternalUpdate", "Update"}
    /\ trace[2].kind \in {"ExternalUpdate", "Update"}
    /\ trace[1].text # trace[2].text
    /\ mark = <<trace[2].text>>
    /\ status \in {"File refreshed from disk", "stream update received"}

\* C32: a drain that receives an Error leaves a status reporting the error,
\* whatever else it received.
C32_ErrorReported ==
    [][(LoopIterate /\ \E i \in 1..Len(C31_Queue) : C31_Queue[i].kind = "Error")
          => status' \in {"watch error", "stream error"}]_vars

\* C38: in stream mode with non-interactive input, once the reader thread
\* has ended the run loop ends, and the frame last drawn shows the text of
\* the last Update sent.
C38_LoopEnds ==
    /\ (app_stream.stream_mode /\ ~app_stream.interactive_input /\ stream.done)
           ~> (loop_result = "Ok")
    /\ []((app_stream.stream_mode /\ ~app_stream.interactive_input /\ loop_result = "Ok")
            => LET l == C31_LastUpdate(stream.tx)
               IN  l = <<>> \/ (text = l[1] /\ mark = <<l[1]>>))


====
